---- MODULE Spec2Model ----
(***************************************************************************)
(* Model of the resource-monitoring pipeline of Ko-455/p1:                 *)
(*   resource_monitor.py      ResourceMonitor      (metrics collector)     *)
(*   kernel_event_analyzer.py KernelEventAnalyzer  (log-event scanner)     *)
(*   report_generator.py      ReportGenerator      (diagnostic reporter)   *)
(*   main_monitor.py          SystemMonitor        (polling-loop driver)   *)
(*                                                                         *)
(* Percentages are whole percents and sizes whole megabytes.  Text is a    *)
(* sequence of one-character strings.  A Python dict is a record; the      *)
(* empty dict {} is the record with no field, EmptyDict.                   *)
(***************************************************************************)
EXTENDS Integers, Sequences, FiniteSets, TLC

VARIABLES
    pc,               \* position of the running operation / of the driver
    running,          \* SystemMonitor.running
    iteration,        \* local "iteration" of start_monitoring
    interval_seconds, \* SystemMonitor.interval_seconds
    tail_lines,       \* argument "lines" of read_kernel_logs
    leak_process_pid, \* SystemMonitor.leak_process_pid (0 = None)
    now,              \* the wall clock read by datetime.now()
    host,             \* what psutil, the log files and dmesg would answer
                      \* at this moment
    monitoring_data,  \* ResourceMonitor.monitoring_data
    snapshot,         \* the snapshot of the current cycle
    warnings,         \* result of check_critical_conditions
    kernel_events,    \* KernelEventAnalyzer.kernel_events
    logs,             \* the lines returned by read_kernel_logs
    analysis,         \* result of analyze_all_events / of one scan
    processes,        \* result of get_process_info
    reports,          \* the reports generate_report returned, oldest first
    values,           \* argument of _calculate_trend
    trend,            \* result of _calculate_trend
    report_text       \* result of _format_report_text

vars == <<pc, running, iteration, interval_seconds, tail_lines,
          leak_process_pid, now, host,
          monitoring_data, snapshot, warnings, processes, kernel_events,
          logs, analysis, reports, values, trend, report_text>>

None == "None"

EmptyDict == [k \in {} |-> None]

----------------------------------------------------------------------------
(* Text: str methods and the regular expressions of                         *)
(* kernel_event_analyzer.py, on sequences of one-character strings          *)

UpperCase ==
    <<"A","B","C","D","E","F","G","H","I","J","K","L","M",
      "N","O","P","Q","R","S","T","U","V","W","X","Y","Z">>

LowerCase ==
    <<"a","b","c","d","e","f","g","h","i","j","k","l","m",
      "n","o","p","q","r","s","t","u","v","w","x","y","z">>

DigitChars == <<"0","1","2","3","4","5","6","7","8","9">>

Min(S) == CHOOSE x \in S : \A y \in S : x <= y
Max(S) == CHOOSE x \in S : \A y \in S : x >= y

\* the lower-case letter of each upper-case letter
LowerOf ==
    [c \in {UpperCase[i] : i \in 1..Len(UpperCase)} |->
        LowerCase[CHOOSE i \in 1..Len(UpperCase) : UpperCase[i] = c]]

\* str.lower() of one character
Lower(c) == IF c \in DOMAIN LowerOf THEN LowerOf[c] ELSE c

\* str.lower()
LowerText(t) == [i \in 1..Len(t) |-> Lower(t[i])]

\* \s of re, and the characters str.strip() removes
IsSpace(c) == c \in {" ", "\t"}

\* \d of re
IsDigit(c) == c \in {"0", "1", "2", "3", "4", "5", "6", "7", "8", "9"}

\* str.strip()
strip(t) ==
    LET kept == {i \in 1..Len(t) : ~IsSpace(t[i])} IN
    IF kept = {} THEN <<>> ELSE SubSeq(t, Min(kept), Max(kept))

\* the literal lit stands in t at position i (case-sensitive)
MatchAt(t, lit, i) ==
    /\ i >= 1
    /\ i + Len(lit) - 1 <= Len(t)
    /\ \A k \in 1..Len(lit) : t[i + k - 1] = lit[k]

\* the literal lit stands in t at position i under re.IGNORECASE
MatchAtCI(t, lit, i) ==
    /\ i >= 1
    /\ i + Len(lit) - 1 <= Len(t)
    /\ \A k \in 1..Len(lit) : Lower(t[i + k - 1]) = Lower(lit[k])

\* lit in t
Contains(t, lit) == \E i \in 1..(Len(t) + 1) : MatchAt(t, lit, i)

\* the literal pieces of a pattern, cut at each ".*" (the only operator
\* the patterns of the two lists use)
RECURSIVE RegexParts(_, _)
RegexParts(p, acc) ==
    IF p = <<>> THEN <<acc>>
    ELSE IF Len(p) >= 2 /\ p[1] = "." /\ p[2] = "*"
    THEN <<acc>> \o RegexParts(SubSeq(p, 3, Len(p)), <<>>)
    ELSE RegexParts(Tail(p), Append(acc, p[1]))

\* the pieces occur in t in this order, without overlap, from position
\* "from" on ("." matches every character of a line: a line holds no "\n")
RECURSIVE MatchParts(_, _, _)
MatchParts(parts, t, from) ==
    IF parts = <<>> THEN TRUE
    ELSE \E i \in from..(Len(t) - Len(Head(parts)) + 1) :
            /\ MatchAtCI(t, Head(parts), i)
            /\ MatchParts(Tail(parts), t, i + Len(Head(parts)))

\* re.search(pattern, line, re.IGNORECASE) is not None
re_search(pattern, line) == MatchParts(RegexParts(pattern, <<>>), line, 1)

\* the end of the longest run of whitespace that starts at i (i - 1 when
\* the run is empty): what a greedy \s* consumes
RECURSIVE SpaceRunEnd(_, _)
SpaceRunEnd(t, i) ==
    IF i >= 1 /\ i <= Len(t) /\ IsSpace(t[i]) THEN SpaceRunEnd(t, i + 1)
    ELSE i - 1

\* the same for a greedy \d*
RECURSIVE DigitRunEnd(_, _)
DigitRunEnd(t, i) ==
    IF i >= 1 /\ i <= Len(t) /\ IsDigit(t[i]) THEN DigitRunEnd(t, i + 1)
    ELSE i - 1

\* t[i] is one of the characters of set, if there is a t[i]
CharIn(t, i, set) == i >= 1 /\ i <= Len(t) /\ t[i] \in set

\* int() of a run of digits
RECURSIVE ParseInt(_)
ParseInt(ds) ==
    IF ds = <<>> THEN 0
    ELSE ParseInt(SubSeq(ds, 1, Len(ds) - 1)) * 10
            + ((CHOOSE i \in 1..Len(DigitChars) :
                    DigitChars[i] = ds[Len(ds)]) - 1)

\* an optional value: Nothing is Python's None
Nothing == <<>>
Some(v) == <<v>>

\* self.oom_patterns, in list order
oom_patterns ==
    <<\* Out of memory
      <<"O","u","t"," ","o","f"," ","m","e","m","o","r","y">>,
      \* OOM killer
      <<"O","O","M"," ","k","i","l","l","e","r">>,
      \* oom-killer
      <<"o","o","m","-","k","i","l","l","e","r">>,
      \* killed process
      <<"k","i","l","l","e","d"," ","p","r","o","c","e","s","s">>,
      \* Memory cgroup out of memory
      <<"M","e","m","o","r","y"," ","c","g","r","o","u","p"," ","o","u","t"," ","o","f"," ","m","e","m","o","r","y">>,
      \* oom_score
      <<"o","o","m","_","s","c","o","r","e">>>>

\* self.critical_patterns, in list order
critical_patterns ==
    <<\* kernel.*panic
      <<"k","e","r","n","e","l",".","*","p","a","n","i","c">>,
      \* kernel.*BUG
      <<"k","e","r","n","e","l",".","*","B","U","G">>,
      \* kernel.*WARNING
      <<"k","e","r","n","e","l",".","*","W","A","R","N","I","N","G">>,
      \* kernel.*Oops
      <<"k","e","r","n","e","l",".","*","O","o","p","s">>,
      \* segfault
      <<"s","e","g","f","a","u","l","t">>,
      \* general protection fault
      <<"g","e","n","e","r","a","l"," ","p","r","o","t","e","c","t","i","o","n"," ","f","a","u","l","t">>,
      \* page allocation failure
      <<"p","a","g","e"," ","a","l","l","o","c","a","t","i","o","n"," ","f","a","i","l","u","r","e">>,
      \* allocation failure
      <<"a","l","l","o","c","a","t","i","o","n"," ","f","a","i","l","u","r","e">>>>

----------------------------------------------------------------------------
(* kernel_event_analyzer.py: field extraction                               *)

\* datetime.now().isoformat() at clock value n (seconds of one minute)
IsoFormat(n) ==
    <<"2","0","2","6","-","0","1","-","0","1","T","0","0",":","0","0",":">>
        \o <<DigitChars[(n \div 10) + 1], DigitChars[(n % 10) + 1]>>

\* \d{4}-\d{2}-\d{2}[\sT]\d{2}:\d{2}:\d{2}
TimestampShape ==
    <<"\\d","\\d","\\d","\\d","-","\\d","\\d","-","\\d","\\d","[\\sT]",
      "\\d","\\d",":","\\d","\\d",":","\\d","\\d">>

ShapeMatches(c, cls) ==
    CASE cls = "\\d" -> IsDigit(c)
      [] cls = "[\\sT]" -> IsSpace(c) \/ c = "T"
      [] OTHER -> c = cls

TimestampAt(t, i) ==
    /\ i + Len(TimestampShape) - 1 <= Len(t)
    /\ \A k \in 1..Len(TimestampShape) :
          ShapeMatches(t[i + k - 1], TimestampShape[k])

extract_timestamp_scan_time(line, t) == IsoFormat(t)

\* timestamp_match.group(1) if timestamp_match else datetime.now().isoformat()
extract_timestamp(line, t) ==
    LET hits == {i \in 1..Len(line) : TimestampAt(line, i)} IN
    IF hits = {} THEN IsoFormat(t)
    ELSE SubSeq(line, Min(hits), Min(hits) + Len(TimestampShape) - 1)

\* pid\s*[=:]?\s*(\d+) at position i: the span of group 1, or <<>>
PidAt(t, i) ==
    LET b == SpaceRunEnd(t, i + 3) + 1
        c == IF CharIn(t, b, {"=", ":"}) THEN b + 1 ELSE b
        d == SpaceRunEnd(t, c) + 1
        e == DigitRunEnd(t, d)
    IN  IF MatchAtCI(t, <<"p","i","d">>, i) /\ e >= d THEN <<d, e>> ELSE <<>>

\* int(pid_match.group(1)) if pid_match else None
extract_pid(line) ==
    LET hits == {i \in 1..Len(line) : PidAt(line, i) # <<>>} IN
    IF hits = {} THEN Nothing
    ELSE LET g == PidAt(line, Min(hits)) IN
         Some(ParseInt(SubSeq(line, g[1], g[2])))

NameChar(c) == ~IsSpace(c) /\ c # ","

\* the end of the longest run of [^\s,] that starts at i
RECURSIVE NameRunEnd(_, _)
NameRunEnd(t, i) ==
    IF i >= 1 /\ i <= Len(t) /\ NameChar(t[i]) THEN NameRunEnd(t, i + 1)
    ELSE i - 1

\* process\s+([^\s,]+) at position i: the span of group 1, or <<>>
ProcessAt(t, i) ==
    LET b == SpaceRunEnd(t, i + 7) + 1
        e == NameRunEnd(t, b)
    IN  IF MatchAtCI(t, <<"p","r","o","c","e","s","s">>, i) /\ b > i + 7 /\ e >= b
        THEN <<b, e>> ELSE <<>>

\* process_match.group(1) if process_match else None
extract_process_name(line) ==
    LET hits == {i \in 1..Len(line) : ProcessAt(line, i) # <<>>} IN
    IF hits = {} THEN Nothing
    ELSE LET g == ProcessAt(line, Min(hits)) IN
         Some(SubSeq(line, g[1], g[2]))

\* oom[_-]?score[=:]?\s*(\d+) at position i: the span of group 1, or <<>>
OomScoreAt(t, i) ==
    LET a == IF CharIn(t, i + 3, {"_", "-"}) THEN i + 4 ELSE i + 3
        b == a + 5
        c == IF CharIn(t, b, {"=", ":"}) THEN b + 1 ELSE b
        d == SpaceRunEnd(t, c) + 1
        e == DigitRunEnd(t, d)
    IN  IF /\ MatchAtCI(t, <<"o","o","m">>, i)
           /\ MatchAtCI(t, <<"s","c","o","r","e">>, a)
           /\ e >= d
        THEN <<d, e>> ELSE <<>>

\* int(oom_score_match.group(1)) if oom_score_match else None
extract_oom_score(line) ==
    LET hits == {i \in 1..Len(line) : OomScoreAt(line, i) # <<>>} IN
    IF hits = {} THEN Nothing
    ELSE LET g == OomScoreAt(line, Min(hits)) IN
         Some(ParseInt(SubSeq(line, g[1], g[2])))

\* kB|MB|GB|bytes
MemoryUnits ==
    <<<<"k","B">>, <<"M","B">>, <<"G","B">>, <<"b","y","t","e","s">>>>

\* (\d+)\s*(kB|MB|GB|bytes) at position i: the span of group 0, or <<>>
MemoryAt(t, i) ==
    LET e == DigitRunEnd(t, i)
        b == SpaceRunEnd(t, e + 1) + 1
        units == {u \in 1..Len(MemoryUnits) : MatchAtCI(t, MemoryUnits[u], b)}
    IN  IF e >= i /\ units # {}
        THEN <<i, b + Len(MemoryUnits[Min(units)]) - 1>> ELSE <<>>

\* memory_match.group(0) if memory_match else None
extract_memory_info(line) ==
    LET hits == {i \in 1..Len(line) : MemoryAt(line, i) # <<>>} IN
    IF hits = {} THEN Nothing
    ELSE LET g == MemoryAt(line, Min(hits)) IN
         Some(SubSeq(line, g[1], g[2]))

----------------------------------------------------------------------------
(* resource_monitor.py: threshold check                                     *)

MemCritical == 90
MemWarning == 75
SwapCritical == 80
SwapWarning == 50
CpuCritical == 90
CpuWarning == 80
AvailCritical == 100

\* f"КРИТИЧНО: ..." / f"ПРЕДУПРЕЖДЕНИЕ: ..." with the formatted value
Msg(level, resource, value) ==
    [level |-> level, resource |-> resource, value |-> value]

check_critical_conditions_inclusive(s) ==
    (IF s.memory.percent >= MemCritical
        THEN <<Msg("CRITICAL", "memory", s.memory.percent)>>
        ELSE IF s.memory.percent > MemWarning
        THEN <<Msg("WARNING", "memory", s.memory.percent)>>
        ELSE <<>>)
    \o (IF s.swap.percent > SwapCritical
        THEN <<Msg("CRITICAL", "swap", s.swap.percent)>>
        ELSE IF s.swap.percent > SwapWarning
        THEN <<Msg("WARNING", "swap", s.swap.percent)>>
        ELSE <<>>)
    \o (IF s.cpu.total_percent > CpuCritical
        THEN <<Msg("CRITICAL", "cpu", s.cpu.total_percent)>>
        ELSE IF s.cpu.total_percent > CpuWarning
        THEN <<Msg("WARNING", "cpu", s.cpu.total_percent)>>
        ELSE <<>>)
    \o (IF s.memory.available_mb <= AvailCritical
        THEN <<Msg("CRITICAL", "available_mb", s.memory.available_mb)>>
        ELSE <<>>)

check_critical_conditions(s) ==
    (IF s.memory.percent > MemCritical
        THEN <<Msg("CRITICAL", "memory", s.memory.percent)>>
        ELSE IF s.memory.percent > MemWarning
        THEN <<Msg("WARNING", "memory", s.memory.percent)>>
        ELSE <<>>)
    \o (IF s.swap.percent > SwapCritical
        THEN <<Msg("CRITICAL", "swap", s.swap.percent)>>
        ELSE IF s.swap.percent > SwapWarning
        THEN <<Msg("WARNING", "swap", s.swap.percent)>>
        ELSE <<>>)
    \o (IF s.cpu.total_percent > CpuCritical
        THEN <<Msg("CRITICAL", "cpu", s.cpu.total_percent)>>
        ELSE IF s.cpu.total_percent > CpuWarning
        THEN <<Msg("WARNING", "cpu", s.cpu.total_percent)>>
        ELSE <<>>)
    \o (IF s.memory.available_mb < AvailCritical
        THEN <<Msg("CRITICAL", "available_mb", s.memory.available_mb)>>
        ELSE <<>>)

----------------------------------------------------------------------------
(* Records of resource_monitor.py                                           *)

\* the dict built by get_memory_info and get_cpu_info, merged by
\* collect_snapshot; the later 'timestamp' key overwrites the earlier ones
MkSnapshot(ts, mem, avail, swp, swpTotal, swpUsed, swpFree, cpu, top) ==
    [timestamp |-> ts,
     memory |-> [percent |-> mem, available_mb |-> avail],
     swap |-> [percent |-> swp, total_mb |-> swpTotal,
               used_mb |-> swpUsed, free_mb |-> swpFree],
     cpu |-> [total_percent |-> cpu],
     top_processes |-> top]

\* d[key] = value on a dict
WithKey(d, key, value) ==
    [k \in DOMAIN d \cup {key} |-> IF k = key THEN value ELSE d[k]]

----------------------------------------------------------------------------
(* resource_monitor.py: process inspection and collect_snapshot            *)
(*                                                                         *)
(* A process of the host is a record with the values psutil would report   *)
(* and a "fate": what happens when _get_process_dict inspects it ("ok",    *)
(* or the exception psutil raises).  host.leak is the process psutil finds *)
(* for the tracked pid; its fate "absent" makes psutil.Process(pid) raise  *)
(* NoSuchProcess.                                                          *)

TopN == 10

ProcessKeys ==
    {"pid", "name", "memory_mb", "memory_percent", "cpu_percent", "status"}

\* the result of a call: the exception it raised (None if none) and the
\* value it returned
Return(v) == [raised |-> None, value |-> v]
Raise(e) == [raised |-> e, value |-> None]

\* _get_process_dict: the except clause turns NoSuchProcess and
\* AccessDenied into the empty dict
get_process_dict(proc) ==
    IF proc.fate = "ok"
    THEN Return([pid |-> proc.pid, name |-> proc.name,
                 memory_mb |-> proc.memory_mb,
                 memory_percent |-> proc.memory_percent,
                 cpu_percent |-> proc.cpu_percent,
                 status |-> proc.status])
    ELSE Return(EmptyDict)

\* processes.sort(key=lambda x: x['memory_mb'], reverse=True): stable, so
\* an element goes after the elements placed before it that are not smaller
RECURSIVE InsertDesc(_, _)
InsertDesc(sorted, d) ==
    IF sorted = <<>> THEN <<d>>
    ELSE IF Head(sorted).memory_mb >= d.memory_mb
    THEN <<Head(sorted)>> \o InsertDesc(Tail(sorted), d)
    ELSE <<d>> \o sorted

RECURSIVE SortDesc(_)
SortDesc(ds) ==
    IF ds = <<>> THEN <<>>
    ELSE InsertDesc(SortDesc(SubSeq(ds, 1, Len(ds) - 1)), ds[Len(ds)])

\* processes[:n]
Prefix(seq, n) == SubSeq(seq, 1, IF Len(seq) < n THEN Len(seq) ELSE n)

\* the for loop over psutil.process_iter: a dict is appended unless
\* _get_process_dict raised NoSuchProcess or AccessDenied
RECURSIVE InspectAll(_)
InspectAll(procs) ==
    IF procs = <<>> THEN <<>>
    ELSE LET r == get_process_dict(Head(procs)) IN
         (IF r.raised = None THEN <<r.value>> ELSE <<>>)
            \o InspectAll(Tail(procs))

get_process_info_unsorted(h, pid) ==
    IF pid # 0
    THEN IF h.leak.fate = "absent"
         THEN Return(<<>>)
         ELSE LET r == get_process_dict(h.leak) IN
              IF r.raised = None THEN Return(<<r.value>>)
              ELSE IF r.raised = "NoSuchProcess" THEN Return(<<>>)
              ELSE Raise(r.raised)
    ELSE LET ds == InspectAll(h.procs) IN
         IF \E i \in 1..Len(ds) : "memory_mb" \notin DOMAIN ds[i]
         THEN Raise("KeyError")
         ELSE Return(Prefix(ds, TopN))

\* get_process_info(pid); pid = 0 stands for None (both are falsy)
get_process_info(h, pid) ==
    IF pid # 0
    THEN IF h.leak.fate = "absent"
         THEN Return(<<>>)
         ELSE LET r == get_process_dict(h.leak) IN
              IF r.raised = None THEN Return(<<r.value>>)
              ELSE IF r.raised = "NoSuchProcess" THEN Return(<<>>)
              ELSE Raise(r.raised)
    ELSE LET ds == InspectAll(h.procs) IN
         IF \E i \in 1..Len(ds) : "memory_mb" \notin DOMAIN ds[i]
         THEN Raise("KeyError")
         ELSE Return(Prefix(SortDesc(ds), TopN))

\* collect_snapshot(leak_process_pid) at time t
collect_snapshot(h, pid, t) ==
    LET top == get_process_info(h, 0)
        s == MkSnapshot(IsoFormat(t), h.mem, h.avail, h.swp, h.swpTotal, h.swpUsed,
                        h.swpFree, h.cpu, top.value)
    IN  IF top.raised # None THEN Raise(top.raised)
        ELSE IF pid = 0 THEN Return(s)
        ELSE LET info == get_process_info(h, pid) IN
             IF info.raised # None THEN Raise(info.raised)
             ELSE IF info.value # <<>>
             THEN Return(WithKey(s, "leak_process", info.value[1]))
             ELSE Return(s)

----------------------------------------------------------------------------
(* kernel_event_analyzer.py: the two scans and analyze_all_events           *)

\* _parse_oom_event(line, pattern) at clock value t; no step of it can
\* raise on a line of text, so it never returns None
parse_oom_event(line, pattern, t) ==
    [timestamp |-> extract_timestamp(line, t),
     type |-> "OOM",
     pattern |-> pattern,
     pid |-> extract_pid(line),
     process_name |-> extract_process_name(line),
     oom_score |-> extract_oom_score(line),
     memory_info |-> extract_memory_info(line),
     raw_line |-> strip(line)]

event_type_by_fault(pattern) ==
    LET p == LowerText(pattern) IN
    IF Contains(p, <<"p","a","n","i","c">>) THEN "KERNEL_PANIC"
    ELSE IF Contains(p, <<"b","u","g">>) THEN "KERNEL_BUG"
    ELSE IF Contains(p, <<"w","a","r","n","i","n","g">>) THEN "KERNEL_WARNING"
    ELSE IF Contains(p, <<"o","o","p","s">>) THEN "KERNEL_OOPS"
    ELSE IF Contains(p, <<"f","a","u","l","t">>) THEN "SEGFAULT"
    ELSE IF Contains(p, <<"a","l","l","o","c","a","t","i","o","n"," ","f","a","i","l","u","r","e">>)
    THEN "MEMORY_ALLOCATION_FAILURE"
    ELSE "UNKNOWN"

\* the if/elif chain of _parse_critical_event over pattern.lower()
event_type(pattern) ==
    LET p == LowerText(pattern) IN
    IF Contains(p, <<"p","a","n","i","c">>) THEN "KERNEL_PANIC"
    ELSE IF Contains(p, <<"b","u","g">>) THEN "KERNEL_BUG"
    ELSE IF Contains(p, <<"w","a","r","n","i","n","g">>) THEN "KERNEL_WARNING"
    ELSE IF Contains(p, <<"o","o","p","s">>) THEN "KERNEL_OOPS"
    ELSE IF Contains(p, <<"s","e","g","f","a","u","l","t">>) THEN "SEGFAULT"
    ELSE IF Contains(p, <<"a","l","l","o","c","a","t","i","o","n"," ","f","a","i","l","u","r","e">>)
    THEN "MEMORY_ALLOCATION_FAILURE"
    ELSE "UNKNOWN"

\* _parse_critical_event(line, pattern) at clock value t
parse_critical_event(line, pattern, t) ==
    [timestamp |-> extract_timestamp(line, t),
     type |-> event_type(pattern),
     pattern |-> pattern,
     raw_line |-> strip(line)]

RECURSIVE LastMatch(_, _, _)
LastMatch(patterns, line, k) ==
    IF k > Len(patterns) THEN 0
    ELSE LET later == LastMatch(patterns, line, k + 1) IN
         IF later # 0 THEN later
         ELSE IF re_search(patterns[k], line) THEN k ELSE 0

\* "for pattern in patterns: if re.search(...): ...; break": the index of
\* the pattern the loop stops at, 0 when it runs to the end of the list
RECURSIVE FirstMatch(_, _, _)
FirstMatch(patterns, line, k) ==
    IF k > Len(patterns) THEN 0
    ELSE IF re_search(patterns[k], line) THEN k
    ELSE FirstMatch(patterns, line, k + 1)

\* analyze_oom_events(logs) at clock value t
RECURSIVE analyze_oom_events(_, _)
analyze_oom_events(ls, t) ==
    IF ls = <<>> THEN <<>>
    ELSE LET line == Head(ls)
             k == FirstMatch(oom_patterns, line, 1)
         IN  (IF strip(line) = <<>> \/ k = 0 THEN <<>>
              ELSE <<parse_oom_event(line, oom_patterns[k], t)>>)
                \o analyze_oom_events(Tail(ls), t)

\* analyze_critical_events(logs) at clock value t
RECURSIVE analyze_critical_events(_, _)
analyze_critical_events(ls, t) ==
    IF ls = <<>> THEN <<>>
    ELSE LET line == Head(ls)
             k == FirstMatch(critical_patterns, line, 1)
         IN  (IF strip(line) = <<>> \/ k = 0 THEN <<>>
              ELSE <<parse_critical_event(line, critical_patterns[k], t)>>)
                \o analyze_critical_events(Tail(ls), t)

\* the concatenation of the sequences of a sequence
RECURSIVE Concat(_)
Concat(seqs) == IF seqs = <<>> THEN <<>> ELSE Head(seqs) \o Concat(Tail(seqs))

\* A log origin of the host is a record: whether its path exists, the
\* outcome of the command run on it ("ok" is exit code 0, "nonzero" another
\* exit code, "timeout" subprocess.TimeoutExpired, "error" an OSError of
\* subprocess.run) and the lines it holds.

DefaultLines == 1000

\* interval_minutes * 60 for the default interval_minutes = 5
DefaultInterval == 300

\* seq[-n:] for n >= 0
LastLines(seq, n) ==
    SubSeq(seq, IF Len(seq) > n THEN Len(seq) - n + 1 ELSE 1, Len(seq))

\* what a tool prints for these lines: each line ended by a newline
RECURSIVE Stdout(_)
Stdout(lines) ==
    IF lines = <<>> THEN <<>>
    ELSE Head(lines) \o <<"\n">> \o Stdout(Tail(lines))

\* stdout of ['tail', '-n', str(lines), path]: the last lines of the file;
\* GNU tail reads a count with a leading '-' as the count without it
TailStdout(origin, lines) ==
    Stdout(LastLines(origin.content, IF lines < 0 THEN -lines ELSE lines))

\* text.split('\n')
RECURSIVE Split(_)
Split(text) ==
    LET breaks == {i \in 1..Len(text) : text[i] = "\n"} IN
    IF breaks = {} THEN <<text>>
    ELSE <<SubSeq(text, 1, Min(breaks) - 1)>>
            \o Split(SubSeq(text, Min(breaks) + 1, Len(text)))

\* the for loop of read_kernel_logs over log_sources
RECURSIVE ReadLogSources(_, _)
ReadLogSources(sources, lines) ==
    IF sources = <<>> THEN <<>>
    ELSE (IF Head(sources).exists /\ Head(sources).outcome = "ok"
          THEN Split(TailStdout(Head(sources), lines))
          ELSE <<>>)
            \o ReadLogSources(Tail(sources), lines)

read_kernel_logs_until_failure(h, lines) ==
    LET failed == {i \in 1..Len(h.log_sources) :
                     /\ h.log_sources[i].exists
                     /\ h.log_sources[i].outcome \in {"timeout", "error"}}
    IN  IF failed # {}
        THEN ReadLogSources(SubSeq(h.log_sources, 1, Min(failed) - 1), lines)
        ELSE ReadLogSources(h.log_sources, lines)
                \o (IF h.dmesg.outcome = "ok"
                    THEN Split(Stdout(h.dmesg.content)) ELSE <<>>)

\* read_kernel_logs(lines): the three files in the order of log_sources,
\* then dmesg -T; every exception of subprocess.run is caught
read_kernel_logs(h, lines) ==
    ReadLogSources(h.log_sources, lines)
        \o (IF h.dmesg.outcome = "ok"
            THEN Split(Stdout(h.dmesg.content)) ELSE <<>>)

\* the dict analyze_all_events builds from the lines read_kernel_logs
\* returned
analyze_all_events(ls, t) ==
    LET oom_events == analyze_oom_events(ls, t)
        critical_events == analyze_critical_events(ls, t)
    IN  [timestamp |-> IsoFormat(t),
         total_log_lines |-> Len(ls),
         oom_events |-> oom_events,
         critical_events |-> critical_events,
         oom_events_count |-> Len(oom_events),
         critical_events_count |-> Len(critical_events)]

----------------------------------------------------------------------------
(* report_generator.py: _calculate_trend                                    *)
(*                                                                         *)
(* The averages are exact fractions: the difference of the two means is    *)
(* the fraction DiffNum / DiffDen with DiffDen > 0.                        *)

TrendStable == 1
TrendStrong == 5

RECURSIVE Sum(_)
Sum(v) == IF v = <<>> THEN 0 ELSE Head(v) + Sum(Tail(v))

\* values[:len(values)//2] and values[len(values)//2:]
FirstHalf(v) == SubSeq(v, 1, Len(v) \div 2)
SecondHalf(v) == SubSeq(v, (Len(v) \div 2) + 1, Len(v))

\* avg_second - avg_first as a fraction
DiffNum(first, second) == Sum(second) * Len(first) - Sum(first) * Len(second)
DiffDen(first, second) == Len(first) * Len(second)

\* the if/elif chain over diff = num / den
TrendOf(num, den) ==
    IF num < TrendStable * den /\ -num < TrendStable * den THEN "STABLE"
    ELSE IF num > TrendStrong * den THEN "INCREASING"
    ELSE IF num < -(TrendStrong * den) THEN "DECREASING"
    ELSE IF num > 0 THEN "SLIGHTLY_INCREASING"
    ELSE "SLIGHTLY_DECREASING"

calculate_trend_odd_first(v) ==
    IF Len(v) < 2 THEN "INSUFFICIENT_DATA"
    ELSE LET h == (Len(v) + 1) \div 2
             first == SubSeq(v, 1, h)
             second == SubSeq(v, h + 1, Len(v))
         IN  TrendOf(DiffNum(first, second), DiffDen(first, second))

\* _calculate_trend(values)
calculate_trend(v) ==
    IF Len(v) < 2 THEN "INSUFFICIENT_DATA"
    ELSE TrendOf(DiffNum(FirstHalf(v), SecondHalf(v)),
                 DiffDen(FirstHalf(v), SecondHalf(v)))

----------------------------------------------------------------------------
(* report_generator.py: the sections of the report                          *)

MaxReportedEvents == 50
RecentOomEvents == 10
MemoryExhausted == 50
SwapExhausted == 100

\* [f(d) for d in monitoring_data]
MemoryPercents(md) == [i \in 1..Len(md) |-> md[i].memory.percent]
CpuPercents(md) == [i \in 1..Len(md) |-> md[i].cpu.total_percent]
SwapPercents(md) == [i \in 1..Len(md) |-> md[i].swap.percent]

\* max(...) and min(...) of a non-empty list
SeqMax(v) == Max({v[i] : i \in 1..Len(v)})
SeqMin(v) == Min({v[i] : i \in 1..Len(v)})

\* round(sum(v) / len(v), 2), in hundredths; a tie goes to the even
\* neighbour
RoundedAverage(v) ==
    LET num == Sum(v) * 100
        q == num \div Len(v)
        r == num % Len(v)
    IN  IF 2 * r < Len(v) THEN q
        ELSE IF 2 * r > Len(v) THEN q + 1
        ELSE IF q % 2 = 0 THEN q ELSE q + 1

\* len([x for x in v if x > cut])
CountOver(v, cut) == Cardinality({i \in 1..Len(v) : v[i] > cut})

\* sum([e.get(key, 0) for e in kernel_events])
TotalOom(ke) == Sum([j \in 1..Len(ke) |-> ke[j].oom_events_count])
TotalCritical(ke) == Sum([j \in 1..Len(ke) |-> ke[j].critical_events_count])

status_with_cpu(md, ke) ==
    IF \/ SeqMax(MemoryPercents(md)) > MemCritical
       \/ SeqMax(SwapPercents(md)) > SwapCritical
       \/ SeqMax(CpuPercents(md)) > CpuCritical
       \/ TotalOom(ke) > 0
    THEN "CRITICAL"
    ELSE IF \/ SeqMax(MemoryPercents(md)) > MemWarning
            \/ SeqMax(SwapPercents(md)) > SwapWarning
            \/ TotalCritical(ke) > 0
    THEN "WARNING"
    ELSE "NORMAL"

status_of_latest(md, ke) ==
    IF \/ md[Len(md)].memory.percent > MemCritical
       \/ md[Len(md)].swap.percent > SwapCritical
       \/ (ke # <<>> /\ ke[Len(ke)].oom_events_count > 0)
    THEN "CRITICAL"
    ELSE IF \/ md[Len(md)].memory.percent > MemWarning
            \/ md[Len(md)].swap.percent > SwapWarning
            \/ (ke # <<>> /\ ke[Len(ke)].critical_events_count > 0)
    THEN "WARNING"
    ELSE "NORMAL"

status_without_oom(md, ke) ==
    IF \/ SeqMax(MemoryPercents(md)) > MemCritical
       \/ SeqMax(SwapPercents(md)) > SwapCritical
    THEN "CRITICAL"
    ELSE IF \/ SeqMax(MemoryPercents(md)) > MemWarning
            \/ SeqMax(SwapPercents(md)) > SwapWarning
            \/ TotalOom(ke) > 0
            \/ TotalCritical(ke) > 0
    THEN "WARNING"
    ELSE "NORMAL"

\* the status of _generate_executive_summary for a non-empty history
status_of(md, ke) ==
    IF \/ SeqMax(MemoryPercents(md)) > MemCritical
       \/ SeqMax(SwapPercents(md)) > SwapCritical
       \/ TotalOom(ke) > 0
    THEN "CRITICAL"
    ELSE IF \/ SeqMax(MemoryPercents(md)) > MemWarning
            \/ SeqMax(SwapPercents(md)) > SwapWarning
            \/ TotalCritical(ke) > 0
    THEN "WARNING"
    ELSE "NORMAL"

\* _generate_executive_summary; "NO_DATA" is 'Нет данных для анализа'
generate_executive_summary(md, ke) ==
    IF md = <<>> THEN [status |-> "NO_DATA"]
    ELSE [status |-> status_of(md, ke),
          monitoring_duration |-> Len(md),
          peak_memory_usage |-> SeqMax(MemoryPercents(md)),
          peak_cpu_usage |-> SeqMax(CpuPercents(md)),
          peak_swap_usage |-> SeqMax(SwapPercents(md)),
          total_oom_events |-> TotalOom(ke),
          total_critical_events |-> TotalCritical(ke)]

analyze_memory_zeroed(md) ==
    IF md = <<>>
    THEN [average_usage_percent |-> 0, max_usage_percent |-> 0,
          min_usage_percent |-> 0, min_available_mb |-> 0,
          memory_pressure_periods |-> 0, critical_periods |-> 0,
          trend |-> "INSUFFICIENT_DATA"]
    ELSE LET v == MemoryPercents(md) IN
         [average_usage_percent |-> RoundedAverage(v),
          max_usage_percent |-> SeqMax(v),
          min_usage_percent |-> SeqMin(v),
          min_available_mb |->
              SeqMin([i \in 1..Len(md) |-> md[i].memory.available_mb]),
          memory_pressure_periods |-> CountOver(v, MemWarning),
          critical_periods |-> CountOver(v, MemCritical),
          trend |-> calculate_trend(v)]

\* _analyze_memory
analyze_memory(md) ==
    IF md = <<>> THEN EmptyDict
    ELSE LET v == MemoryPercents(md) IN
         [average_usage_percent |-> RoundedAverage(v),
          max_usage_percent |-> SeqMax(v),
          min_usage_percent |-> SeqMin(v),
          min_available_mb |->
              SeqMin([i \in 1..Len(md) |-> md[i].memory.available_mb]),
          memory_pressure_periods |-> CountOver(v, MemWarning),
          critical_periods |-> CountOver(v, MemCritical),
          trend |-> calculate_trend(v)]

\* _analyze_cpu
analyze_cpu(md) ==
    IF md = <<>> THEN EmptyDict
    ELSE LET v == CpuPercents(md) IN
         [average_usage_percent |-> RoundedAverage(v),
          max_usage_percent |-> SeqMax(v),
          min_usage_percent |-> SeqMin(v),
          high_load_periods |-> CountOver(v, CpuWarning),
          critical_periods |-> CountOver(v, CpuCritical),
          trend |-> calculate_trend(v)]

\* _analyze_swap
analyze_swap(md) ==
    IF md = <<>> THEN EmptyDict
    ELSE LET v == SwapPercents(md) IN
         [average_usage_percent |-> RoundedAverage(v),
          max_usage_percent |-> SeqMax(v),
          max_used_mb |-> SeqMax([i \in 1..Len(md) |-> md[i].swap.used_mb]),
          swap_activity_periods |-> CountOver(v, SwapWarning),
          critical_periods |-> CountOver(v, SwapCritical),
          trend |-> calculate_trend(v)]

\* f"Критическое использование ...: {value:.1f}%"
CriticalMsg(resource, value) == [resource |-> resource, value |-> value]

\* the warnings list _analyze_critical_events builds for one snapshot
resource_critical_warnings(s) ==
    (IF s.memory.percent > MemCritical
        THEN <<CriticalMsg("memory", s.memory.percent)>> ELSE <<>>)
    \o (IF s.swap.percent > SwapCritical
        THEN <<CriticalMsg("swap", s.swap.percent)>> ELSE <<>>)
    \o (IF s.cpu.total_percent > CpuCritical
        THEN <<CriticalMsg("cpu", s.cpu.total_percent)>> ELSE <<>>)

\* the first loop of _analyze_critical_events: one entry per snapshot
\* whose warnings list is not empty
RECURSIVE resource_critical_entries(_)
resource_critical_entries(md) ==
    IF md = <<>> THEN <<>>
    ELSE (IF resource_critical_warnings(Head(md)) # <<>>
          THEN <<[timestamp |-> Head(md).timestamp,
                  type |-> "RESOURCE_CRITICAL",
                  warnings |-> resource_critical_warnings(Head(md))]>>
          ELSE <<>>)
            \o resource_critical_entries(Tail(md))

\* the second loop: every event of every analysis, in order
RECURSIVE kernel_critical_events(_)
kernel_critical_events(ke) ==
    IF ke = <<>> THEN <<>>
    ELSE Head(ke).critical_events \o kernel_critical_events(Tail(ke))

report_critical_events_untruncated(md, ke) ==
    LET all == resource_critical_entries(md) \o kernel_critical_events(ke) IN
    [total_critical_events |-> Len(all), events |-> all]

\* ReportGenerator._analyze_critical_events
report_critical_events(md, ke) ==
    LET all == resource_critical_entries(md) \o kernel_critical_events(ke) IN
    [total_critical_events |-> Len(all),
     events |-> Prefix(all, MaxReportedEvents)]

\* all_oom_events.extend(...) over the analyses
RECURSIVE all_oom_events(_)
all_oom_events(ke) ==
    IF ke = <<>> THEN <<>>
    ELSE Head(ke).oom_events \o all_oom_events(Tail(ke))

\* all_oom_events[-n:]
Suffix(seq, n) ==
    SubSeq(seq, IF Len(seq) > n THEN Len(seq) - n + 1 ELSE 1, Len(seq))

report_oom_events_oldest(ke) ==
    LET all == all_oom_events(ke)
        names == {all[i].process_name[1] :
                    i \in {j \in 1..Len(all) : all[j].process_name # Nothing}}
    IN  IF all = <<>>
        THEN [oom_events_detected |-> FALSE, total_oom_events |-> 0]
        ELSE [oom_events_detected |-> TRUE,
              total_oom_events |-> Len(all),
              processes_killed |->
                  [n \in names |->
                      Cardinality({i \in 1..Len(all) :
                                     all[i].process_name = Some(n)})],
              recent_oom_events |-> Prefix(all, RecentOomEvents)]

\* ReportGenerator._analyze_oom_events; processes_killed counts the events
\* of each process name, events without a name are not counted there
report_oom_events(ke) ==
    LET all == all_oom_events(ke)
        names == {all[i].process_name[1] :
                    i \in {j \in 1..Len(all) : all[j].process_name # Nothing}}
    IN  IF all = <<>>
        THEN [oom_events_detected |-> FALSE, total_oom_events |-> 0]
        ELSE [oom_events_detected |-> TRUE,
              total_oom_events |-> Len(all),
              processes_killed |->
                  [n \in names |->
                      Cardinality({i \in 1..Len(all) :
                                     all[i].process_name = Some(n)})],
              recent_oom_events |-> Suffix(all, RecentOomEvents)]

exhaustion_flags_without_swap_total(s) ==
    (IF s.memory.available_mb < MemoryExhausted
        THEN <<[resource |-> "MEMORY",
                available_mb |-> s.memory.available_mb,
                severity |-> "CRITICAL"]>>
        ELSE <<>>)
    \o (IF s.swap.free_mb < SwapExhausted
        THEN <<[resource |-> "SWAP",
                free_mb |-> s.swap.free_mb,
                severity |-> "WARNING"]>>
        ELSE <<>>)

\* the events list _analyze_resource_exhaustion builds for one snapshot
exhaustion_flags(s) ==
    (IF s.memory.available_mb < MemoryExhausted
        THEN <<[resource |-> "MEMORY",
                available_mb |-> s.memory.available_mb,
                severity |-> "CRITICAL"]>>
        ELSE <<>>)
    \o (IF s.swap.free_mb < SwapExhausted /\ s.swap.total_mb > 0
        THEN <<[resource |-> "SWAP",
                free_mb |-> s.swap.free_mb,
                severity |-> "WARNING"]>>
        ELSE <<>>)

RECURSIVE exhaustion_events(_)
exhaustion_events(md) ==
    IF md = <<>> THEN <<>>
    ELSE (IF exhaustion_flags(Head(md)) # <<>>
          THEN <<[timestamp |-> Head(md).timestamp,
                  events |-> exhaustion_flags(Head(md))]>>
          ELSE <<>>)
            \o exhaustion_events(Tail(md))

\* _analyze_resource_exhaustion
analyze_resource_exhaustion(md) ==
    IF md = <<>> THEN EmptyDict
    ELSE [exhaustion_events_count |-> Len(exhaustion_events(md)),
          events |-> exhaustion_events(md)]

generate_recommendations_first_only(md, ke) ==
    IF md = <<>> THEN << <<"INSUFFICIENT_DATA">> >>
    ELSE IF SeqMax(MemoryPercents(md)) > MemCritical THEN << <<"MEMORY">> >>
    ELSE IF SeqMax(SwapPercents(md)) > SwapCritical THEN << <<"SWAP">> >>
    ELSE IF TotalOom(ke) > 0 THEN << <<"OOM", TotalOom(ke)>> >>
    ELSE IF SeqMax(CpuPercents(md)) > CpuCritical THEN << <<"CPU">> >>
    ELSE << <<"NORMAL">> >>

\* _generate_recommendations; a recommendation is the name of its rule,
\* the OOM one also carries the count its text quotes
generate_recommendations(md, ke) ==
    IF md = <<>> THEN << <<"INSUFFICIENT_DATA">> >>
    ELSE LET recs ==
                (IF SeqMax(MemoryPercents(md)) > MemCritical
                    THEN << <<"MEMORY">> >> ELSE <<>>)
                \o (IF SeqMax(SwapPercents(md)) > SwapCritical
                    THEN << <<"SWAP">> >> ELSE <<>>)
                \o (IF TotalOom(ke) > 0
                    THEN << <<"OOM", TotalOom(ke)>> >> ELSE <<>>)
                \o (IF SeqMax(CpuPercents(md)) > CpuCritical
                    THEN << <<"CPU">> >> ELSE <<>>)
         IN  IF recs = <<>> THEN << <<"NORMAL">> >> ELSE recs

\* d.get(key, default)
Get(d, key, default) == IF key \in DOMAIN d THEN d[key] ELSE default

\* the leak_history list of _track_leak_process
RECURSIVE leak_history(_)
leak_history(md) ==
    IF md = <<>> THEN <<>>
    ELSE (IF "leak_process" \in DOMAIN Head(md)
          THEN <<[timestamp |-> Head(md).timestamp,
                  memory_mb |-> Get(Head(md).leak_process, "memory_mb", 0),
                  memory_percent |->
                      Get(Head(md).leak_process, "memory_percent", 0),
                  cpu_percent |->
                      Get(Head(md).leak_process, "cpu_percent", 0)]>>
          ELSE <<>>)
            \o leak_history(Tail(md))

track_leak_process_peak_growth(md, pid) ==
    LET h == leak_history(md) IN
    IF h = <<>> THEN [status |-> "NOT_FOUND"]
    ELSE [pid |-> pid,
          history |-> h,
          max_memory_mb |-> SeqMax([i \in 1..Len(h) |-> h[i].memory_mb]),
          memory_growth |->
              SeqMax([i \in 1..Len(h) |-> h[i].memory_mb]) - h[1].memory_mb]

\* _track_leak_process; "NOT_FOUND" is 'Процесс не найден ...'
track_leak_process(md, pid) ==
    LET h == leak_history(md) IN
    IF h = <<>> THEN [status |-> "NOT_FOUND"]
    ELSE [pid |-> pid,
          history |-> h,
          max_memory_mb |-> SeqMax([i \in 1..Len(h) |-> h[i].memory_mb]),
          memory_growth |-> h[Len(h)].memory_mb - h[1].memory_mb]

\* generate_report(monitoring_data, kernel_events, leak_process_pid) at
\* clock value t
generate_report(md, ke, pid, t) ==
    LET report ==
            [report_metadata |->
                [generated_at |-> IsoFormat(t),
                 monitoring_periods |-> Len(md),
                 kernel_analyses |-> Len(ke)],
             executive_summary |-> generate_executive_summary(md, ke),
             memory_analysis |-> analyze_memory(md),
             cpu_analysis |-> analyze_cpu(md),
             swap_analysis |-> analyze_swap(md),
             critical_events |-> report_critical_events(md, ke),
             oom_analysis |-> report_oom_events(ke),
             resource_exhaustion |-> analyze_resource_exhaustion(md),
             recommendations |-> generate_recommendations(md, ke)]
    IN  IF pid # 0
        THEN WithKey(report, "leak_process_tracking",
                     track_leak_process(md, pid))
        ELSE report

\* s[::-1]
Reverse(seq) == [i \in 1..Len(seq) |-> seq[Len(seq) + 1 - i]]

generate_report_call_reversing(md, ke, pid, t) ==
    [returned |-> generate_report(md, ke, pid, t),
     monitoring_data |-> Reverse(md),
     kernel_events |-> ke]

generate_report_call_dropping_oldest(md, ke, pid, t) ==
    [returned |-> generate_report(md, ke, pid, t),
     monitoring_data |-> md,
     kernel_events |-> IF ke = <<>> THEN ke ELSE Tail(ke)]

\* a call of generate_report: what it returns and the two lists it was
\* passed (by reference) as the call leaves them; no statement of
\* report_generator.py assigns to, appends to or removes from either
generate_report_call(md, ke, pid, t) ==
    [returned |-> generate_report(md, ke, pid, t),
     monitoring_data |-> md,
     kernel_events |-> ke]

----------------------------------------------------------------------------
(* report_generator.py: _format_report_text and save_report                 *)
(*                                                                         *)
(* The text is the sequence of the lines that are joined by "\n".  A line  *)
(* is a tuple of its fixed label and the values formatted into it.         *)

\* critical['events'][:10]
TextEvents == 10

Rule(c) == <<"RULE", c>>
Title(name) == <<"TITLE", name>>
Blank == <<"">>

\* f"{x:.1f}"
F1(x) == <<"%.1f", x>>

\* the keys of the summary that _format_report_text subscripts
SummaryKeys ==
    <<"status", "peak_memory_usage", "peak_cpu_usage", "peak_swap_usage",
      "total_oom_events", "total_critical_events">>

\* the block of one section: title, rule, lines, blank line
Section(name, lines) == <<Title(name), Rule("-")>> \o lines \o <<Blank>>

TextHead(report) ==
    <<Rule("="), Title("REPORT"), Rule("="),
      <<"generated_at", report.report_metadata.generated_at>>,
      <<"monitoring_periods", report.report_metadata.monitoring_periods>>,
      Blank>>

TextSummary(summary) ==
    Section("SUMMARY",
        [i \in 1..Len(SummaryKeys) |-> <<SummaryKeys[i], summary[SummaryKeys[i]]>>])

TextMemory(mem) ==
    Section("MEMORY",
        <<<<"average", F1(Get(mem, "average_usage_percent", 0))>>,
          <<"max", F1(Get(mem, "max_usage_percent", 0))>>,
          <<"min_available", F1(Get(mem, "min_available_mb", 0))>>,
          <<"pressure_periods", Get(mem, "memory_pressure_periods", 0)>>,
          <<"critical_periods", Get(mem, "critical_periods", 0)>>,
          <<"trend", Get(mem, "trend", "N/A")>>>>)

TextCpu(cpu) ==
    Section("CPU",
        <<<<"average", F1(Get(cpu, "average_usage_percent", 0))>>,
          <<"max", F1(Get(cpu, "max_usage_percent", 0))>>,
          <<"high_load_periods", Get(cpu, "high_load_periods", 0)>>,
          <<"critical_periods", Get(cpu, "critical_periods", 0)>>,
          <<"trend", Get(cpu, "trend", "N/A")>>>>)

TextSwap(swap) ==
    Section("SWAP",
        <<<<"average", F1(Get(swap, "average_usage_percent", 0))>>,
          <<"max", F1(Get(swap, "max_usage_percent", 0))>>,
          <<"max_used", F1(Get(swap, "max_used_mb", 0))>>,
          <<"activity_periods", Get(swap, "swap_activity_periods", 0)>>,
          <<"critical_periods", Get(swap, "critical_periods", 0)>>,
          <<"trend", Get(swap, "trend", "N/A")>>>>)

\* the lines of the killed processes follow the order of the dict, which
\* the function processes_killed does not keep: they are one entry here,
\* the set of the pairs <<name, count>>
TextOom(oom) ==
    Section("OOM",
        IF Get(oom, "oom_events_detected", FALSE)
        THEN <<<<"detected", Get(oom, "total_oom_events", 0)>>>>
             \o (LET killed == Get(oom, "processes_killed", EmptyDict) IN
                 IF DOMAIN killed # {}
                 THEN <<<<"killed">>,
                        <<"processes",
                          {<<n, killed[n]>> : n \in DOMAIN killed}>>>>
                 ELSE <<>>)
        ELSE <<<<"not detected">>>>)

TextCritical(critical) ==
    Section("CRITICAL_EVENTS",
        <<<<"total", Get(critical, "total_critical_events", 0)>>>>
        \o (LET events == Get(critical, "events", <<>>) IN
            IF events # <<>>
            THEN <<<<"recent">>>>
                 \o [i \in 1..Len(Prefix(events, TextEvents)) |->
                        <<"event", Get(events[i], "timestamp", "N/A"),
                          Get(events[i], "type", "UNKNOWN")>>]
            ELSE <<>>))

TextExhaustion(exhaustion) ==
    Section("EXHAUSTION",
        <<<<"count", Get(exhaustion, "exhaustion_events_count", 0)>>>>)

TextRecommendations(recs) ==
    Section("RECOMMENDATIONS",
        [i \in 1..Len(recs) |-> <<"recommendation", i, recs[i]>>])

TextTail == <<Rule("="), Title("END"), Rule("=")>>

\* _format_report_text: summary['peak_memory_usage'] and the subscripts
\* after it raise KeyError on a summary that has the status only
format_report_text(report) ==
    IF \E i \in 1..Len(SummaryKeys) :
            SummaryKeys[i] \notin DOMAIN report.executive_summary
    THEN Raise("KeyError")
    ELSE Return(TextHead(report)
                \o TextSummary(report.executive_summary)
                \o TextMemory(report.memory_analysis)
                \o TextCpu(report.cpu_analysis)
                \o TextSwap(report.swap_analysis)
                \o TextOom(report.oom_analysis)
                \o TextCritical(report.critical_events)
                \o TextExhaustion(report.resource_exhaustion)
                \o TextRecommendations(report.recommendations)
                \o TextTail)

----------------------------------------------------------------------------
(* main_monitor.py: the statements of SystemMonitor the driver runs         *)

ReportEvery == 5

report_due_on_first_cycle(i) == i % ReportEvery = 1

\* iteration % 5 == 0
report_due(i) == i % ReportEvery = 0

\* _generate_report: nothing is generated for an empty snapshot history;
\* the reports generated so far, with the new one if there is one
generate_report_if_data(rs, md, ke, pid, t) ==
    IF md = <<>> THEN rs
    ELSE Append(rs, generate_report_call(md, ke, pid, t).returned)

\* _generate_report: the two lists of the monitor and the analyzer as the
\* call of generate_report, which is passed them by reference, leaves them
histories_after_report(md, ke, pid, t) ==
    IF md = <<>> THEN [monitoring_data |-> md, kernel_events |-> ke]
    ELSE LET c == generate_report_call(md, ke, pid, t) IN
         [monitoring_data |-> c.monitoring_data,
          kernel_events |-> c.kernel_events]

\* _generate_report: the text save_report(report, 'both') has rendered
\* last; a report of a non-empty history has the full summary, so the
\* rendering does not raise here
save_report_if_data(txt, md, ke, pid, t) ==
    IF md = <<>> THEN txt
    ELSE format_report_text(generate_report_call(md, ke, pid, t).returned).value

----------------------------------------------------------------------------
(* Values the variables hold while an operation does not use them          *)

\* an origin that does not exist / cannot be run
NoOrigin == [exists |-> FALSE, outcome |-> "error", content |-> <<>>]

\* a log file that exists, is read with exit code 0 and holds these lines
LogFile(content) == [exists |-> TRUE, outcome |-> "ok", content |-> content]

IdleHost == [mem |-> 0, avail |-> 0, swp |-> 0, swpTotal |-> 0,
             swpUsed |-> 0, swpFree |-> 0, cpu |-> 0,
             procs |-> <<>>, leak |-> "absent",
             log_sources |-> <<NoOrigin, NoOrigin, NoOrigin>>,
             dmesg |-> NoOrigin]

IdleDriver ==
    /\ running = FALSE
    /\ iteration = 0
    /\ interval_seconds = DefaultInterval
    /\ tail_lines = DefaultLines
    /\ leak_process_pid = 0
    /\ now = 0
    /\ host = IdleHost

IdleMonitor ==
    /\ monitoring_data = <<>>
    /\ snapshot = None
    /\ warnings = <<>>
    /\ processes = None

IdleAnalyzer ==
    /\ kernel_events = <<>>
    /\ logs = <<>>
    /\ analysis = None

IdleReport == reports = <<>>

IdleTrend ==
    /\ values = <<>>
    /\ trend = None

IdleText == report_text = None

----------------------------------------------------------------------------
(* SpecCheck: check_critical_conditions applied to one snapshot            *)

CheckMemory == {MemWarning, MemWarning + 1, MemCritical, MemCritical + 1}
CheckSwap == {SwapWarning, SwapWarning + 1, SwapCritical, SwapCritical + 1}
CheckCpu == {CpuWarning, CpuWarning + 1, CpuCritical, CpuCritical + 1}
CheckAvail == {0, AvailCritical - 1, AvailCritical, AvailCritical + 1}

CheckSnapshots ==
    {MkSnapshot(IsoFormat(0), m, a, s, 0, 0, 0, c, <<>>) :
        m \in CheckMemory, a \in CheckAvail, s \in CheckSwap, c \in CheckCpu}

InitCheck ==
    /\ pc = "call"
    /\ snapshot \in CheckSnapshots
    /\ monitoring_data = <<>>
    /\ warnings = <<>>
    /\ processes = None
    /\ IdleDriver /\ IdleAnalyzer /\ IdleReport /\ IdleTrend /\ IdleText

CheckCritical ==
    /\ pc = "call"
    /\ warnings' = check_critical_conditions(snapshot)
    /\ pc' = "return"
    /\ UNCHANGED <<running, iteration, interval_seconds, tail_lines,
                   leak_process_pid, now, host,
                   monitoring_data, snapshot, processes, kernel_events,
                   logs, analysis, reports, values, trend, report_text>>

NextCheck == CheckCritical

SpecCheck == InitCheck /\ [][NextCheck]_vars

\* the warnings of one resource, in the order they were emitted
WarningsOf(ws, resource) == SelectSeq(ws, LAMBDA w : w.resource = resource)

ResourceRank(resource) ==
    CASE resource = "memory" -> 1
      [] resource = "swap" -> 2
      [] resource = "cpu" -> 3
      [] resource = "available_mb" -> 4

\* what the two-tier rule allows for one resource with cutoffs warn < crit
TierRule(ws, resource, value, warn, crit) ==
    LET mine == WarningsOf(ws, resource) IN
    /\ value > crit => mine = <<Msg("CRITICAL", resource, value)>>
    /\ (value > warn /\ value <= crit) =>
            mine = <<Msg("WARNING", resource, value)>>
    /\ value <= warn => mine = <<>>

\* C1: check_critical_conditions returns its warnings in the order memory,
\* swap, cpu, available-memory, at most one per check; each percentage
\* gives only its CRITICAL message above the CRITICAL cutoff, only its
\* WARNING message above the WARNING cutoff and up to the CRITICAL one, and
\* nothing at or below the WARNING cutoff; available memory below 100 MB
\* adds one CRITICAL message and never a WARNING; every comparison is strict.
C1_ThresholdTiers ==
    pc = "return" =>
        /\ \A i, j \in 1..Len(warnings) :
              i < j => ResourceRank(warnings[i].resource)
                         < ResourceRank(warnings[j].resource)
        /\ TierRule(warnings, "memory", snapshot.memory.percent,
                    MemWarning, MemCritical)
        /\ TierRule(warnings, "swap", snapshot.swap.percent,
                    SwapWarning, SwapCritical)
        /\ TierRule(warnings, "cpu", snapshot.cpu.total_percent,
                    CpuWarning, CpuCritical)
        /\ WarningsOf(warnings, "available_mb") =
              (IF snapshot.memory.available_mb < AvailCritical
                  THEN <<Msg("CRITICAL", "available_mb",
                             snapshot.memory.available_mb)>>
                  ELSE <<>>)

\* a snapshot exactly at the CRITICAL memory cutoff and at the available
\* memory cutoff has been checked and got the WARNING memory message only
C1_Witness ==
    /\ pc = "return"
    /\ snapshot.memory.percent = MemCritical
    /\ snapshot.swap.percent = SwapCritical + 1
    /\ snapshot.memory.available_mb = AvailCritical
    /\ Len(warnings) >= 2

----------------------------------------------------------------------------
(* SpecCollect: get_process_info and collect_snapshot on one host state    *)

MaxProcs == 2

ProcFates == {"ok", "NoSuchProcess", "AccessDenied"}
ProcMemory == {10, 20}
TrackedPids == {0, 7}

Proc(pid, mem, fate) ==
    [pid |-> pid, name |-> "proc", memory_mb |-> mem, memory_percent |-> 1,
     cpu_percent |-> 0, status |-> "running", fate |-> fate]

\* the process tables of at most n processes, pids 1, 2, ... in the order
\* process_iter yields them
ProcTables(n) ==
    UNION {{[i \in 1..k |-> Proc(i, c[i][1], c[i][2])] :
                c \in [1..k -> ProcMemory \X ProcFates]} : k \in 0..n}

LeakProcs ==
    {Proc(7, m, f) : m \in ProcMemory, f \in ProcFates \cup {"absent"}}

\* a host whose counters read: memory 50 %, 4000 MB available, no swap
\* in use, cpu 10 %
CalmHost(procs, leak) ==
    [mem |-> 50, avail |-> 4000, swp |-> 0, swpTotal |-> 2000,
     swpUsed |-> 0, swpFree |-> 2000, cpu |-> 10,
     procs |-> procs, leak |-> leak,
     log_sources |-> <<NoOrigin, NoOrigin, NoOrigin>>,
     dmesg |-> NoOrigin]

InitCollect ==
    /\ pc = "call"
    /\ host \in {CalmHost(t, l) : t \in ProcTables(MaxProcs), l \in LeakProcs}
    /\ leak_process_pid \in TrackedPids
    /\ running = FALSE
    /\ iteration = 0
    /\ interval_seconds = DefaultInterval
    /\ tail_lines = DefaultLines
    /\ now = 0
    /\ IdleMonitor /\ IdleAnalyzer /\ IdleReport /\ IdleTrend /\ IdleText

\* one call of get_process_info(leak_process_pid)
GetProcessInfo ==
    /\ pc = "call"
    /\ LET r == get_process_info(host, leak_process_pid) IN
       IF r.raised = None
       THEN pc' = "return_processes" /\ processes' = r.value
       ELSE pc' = "raised_processes" /\ processes' = processes
    /\ UNCHANGED <<running, iteration, interval_seconds, tail_lines,
                   leak_process_pid, now, host,
                   monitoring_data, snapshot, warnings, kernel_events,
                   logs, analysis, reports, values, trend, report_text>>

\* one call of collect_snapshot(leak_process_pid)
CollectSnapshot ==
    /\ pc = "call"
    /\ LET r == collect_snapshot(host, leak_process_pid, now) IN
       IF r.raised = None
       THEN pc' = "return_snapshot" /\ snapshot' = r.value
       ELSE pc' = "raised_snapshot" /\ snapshot' = snapshot
    /\ UNCHANGED <<running, iteration, interval_seconds, tail_lines,
                   leak_process_pid, now, host,
                   monitoring_data, warnings, processes, kernel_events,
                   logs, analysis, reports, values, trend, report_text>>

NextCollect == GetProcessInfo \/ CollectSnapshot

SpecCollect == InitCollect /\ [][NextCollect]_vars

\* C2: every element of the sequence get_process_info returns, for the
\* enumerate-all call and for the single-pid call, is a complete
\* ProcessInfo; a process whose inspection failed is dropped, never
\* returned as an empty or partial record.
C2_NoPartialProcessInfo ==
    pc = "return_processes" =>
        \A i \in 1..Len(processes) : DOMAIN processes[i] = ProcessKeys

\* C3: collect_snapshot always completes and returns a snapshot with
\* memory, swap, cpu and top_processes, also when the inspection of some
\* process fails during the enumeration.
C3_SnapshotAlwaysCompletes ==
    (pc \in {"return_snapshot", "raised_snapshot"}
        /\ \E i \in 1..Len(host.procs) : host.procs[i].fate # "ok")
    => /\ pc = "return_snapshot"
       /\ {"memory", "swap", "cpu", "top_processes"} \subseteq DOMAIN snapshot

\* C16: a snapshot returned by collect_snapshot carries a trackedProcess
\* (key leak_process) exactly when a tracked pid was given and that process
\* existed at capture time, and then it is a complete ProcessInfo of that
\* pid.
C16_TrackedProcessIffExists ==
    pc = "return_snapshot" =>
        /\ ("leak_process" \in DOMAIN snapshot)
              <=> (leak_process_pid # 0
                     /\ host.leak.fate \in {"ok", "AccessDenied"})
        /\ "leak_process" \in DOMAIN snapshot
              => /\ DOMAIN snapshot.leak_process = ProcessKeys
                 /\ snapshot.leak_process.pid = leak_process_pid

----------------------------------------------------------------------------
(* SpecTop: get_process_info and collect_snapshot on process tables longer  *)
(* than the top list                                                        *)

MaxTopProcs == 12

\* the resident memory of process i of table a: a scrambled series with
\* repeated values
TopMemory(a, i) == ((a * i) % 7) * 10

\* the process tables of n processes that can all be inspected
TopTables(n) ==
    {[i \in 1..n |-> Proc(i, TopMemory(a, i), "ok")] : a \in 1..6}

InitTop ==
    /\ pc = "call"
    /\ host \in {CalmHost(t, Proc(7, 10, "absent")) :
                    t \in UNION {TopTables(n) : n \in 0..MaxTopProcs}}
    /\ leak_process_pid = 0
    /\ running = FALSE
    /\ iteration = 0
    /\ interval_seconds = DefaultInterval
    /\ tail_lines = DefaultLines
    /\ now = 0
    /\ IdleMonitor /\ IdleAnalyzer /\ IdleReport /\ IdleTrend /\ IdleText

SpecTop == InitTop /\ [][NextCollect]_vars

\* the pids of the processes of the host that can be inspected
Inspected == {host.procs[i].pid : i \in {j \in 1..Len(host.procs) :
                                            host.procs[j].fate = "ok"}}

\* the resident memory of the process of the host with this pid
MemoryOfPid(p) ==
    LET i == CHOOSE j \in 1..Len(host.procs) : host.procs[j].pid = p
    IN  host.procs[i].memory_mb

\* C17: top_processes of a snapshot has at most 10 entries, is sorted by
\* memory_mb in non-increasing order and holds the 10 largest-memory
\* processes among those inspected (all of them when there are fewer than
\* 10): every entry is the record of a different inspected process and no
\* process left out has more memory than an entry.
C17_TopTenByMemory ==
    pc = "return_snapshot" =>
        LET top == snapshot.top_processes
            listed == {top[k].pid : k \in 1..Len(top)}
        IN  /\ Len(top) <= 10
            /\ Len(top) = (IF Cardinality(Inspected) > 10
                           THEN 10 ELSE Cardinality(Inspected))
            /\ \A k \in 1..(Len(top) - 1) :
                  top[k].memory_mb >= top[k + 1].memory_mb
            /\ Cardinality(listed) = Len(top)
            /\ listed \subseteq Inspected
            /\ \A k \in 1..Len(top) :
                  top[k].memory_mb = MemoryOfPid(top[k].pid)
            /\ \A p \in Inspected \ listed : \A k \in 1..Len(top) :
                  MemoryOfPid(p) <= top[k].memory_mb

\* a snapshot of a host with 12 processes: the list holds 10, and a process
\* with as much memory as the last entry was left out
C17_Witness ==
    /\ pc = "return_snapshot"
    /\ Len(host.procs) = 12
    /\ Len(snapshot.top_processes) = 10
    /\ snapshot.top_processes[1].memory_mb > snapshot.top_processes[10].memory_mb
    /\ \E i \in 1..12 :
          /\ \A k \in 1..10 : snapshot.top_processes[k].pid # host.procs[i].pid
          /\ host.procs[i].memory_mb = snapshot.top_processes[10].memory_mb

----------------------------------------------------------------------------
(* SpecScan: analyze_all_events on the lines read from the log sources     *)

MaxLines == 2

\* the log lines the scans are run on
SampleLines ==
    {\* ''
     <<>>,
     \* '  \t'
     <<" "," ","\t">>,
     \* 'Out of memory: Killed process 1234 (firefox)'
     <<"O","u","t"," ","o","f"," ","m","e","m","o","r","y",":"," ","K","i","l","l","e","d"," ","p","r","o","c","e","s","s"," ","1","2","3","4"," ","(","f","i","r","e","f","o","x",")">>,
     \* 'kernel: OOM killer panic pid=42'
     <<"k","e","r","n","e","l",":"," ","O","O","M"," ","k","i","l","l","e","r"," ","p","a","n","i","c"," ","p","i","d","=","4","2">>,
     \* '2024-01-15T10:30:00 invoked oom-killer: oom_score=5'
     <<"2","0","2","4","-","0","1","-","1","5","T","1","0",":","3","0",":","0","0"," ","i","n","v","o","k","e","d"," ","o","o","m","-","k","i","l","l","e","r",":"," ","o","o","m","_","s","c","o","r","e","=","5">>,
     \* 'kernel BUG: page allocation failure, 512 kB'
     <<"k","e","r","n","e","l"," ","B","U","G",":"," ","p","a","g","e"," ","a","l","l","o","c","a","t","i","o","n"," ","f","a","i","l","u","r","e",","," ","5","1","2"," ","k","B">>,
     \* 'general protection fault'
     <<"g","e","n","e","r","a","l"," ","p","r","o","t","e","c","t","i","o","n"," ","f","a","u","l","t">>,
     \* 'chrome[9]: segfault at 0'
     <<"c","h","r","o","m","e","[","9","]",":"," ","s","e","g","f","a","u","l","t"," ","a","t"," ","0">>,
     \* 'usb 1-1: new device'
     <<"u","s","b"," ","1","-","1",":"," ","n","e","w"," ","d","e","v","i","c","e">>,
     \* 'Memory cgroup out of memory: Kill process chrome, 2048 MB'
     <<"M","e","m","o","r","y"," ","c","g","r","o","u","p"," ","o","u","t"," ","o","f"," ","m","e","m","o","r","y",":"," ","K","i","l","l"," ","p","r","o","c","e","s","s"," ","c","h","r","o","m","e",","," ","2","0","4","8"," ","M","B">>,
     \* 'KERNEL: Warning oops'
     <<"K","E","R","N","E","L",":"," ","W","a","r","n","i","n","g"," ","o","o","p","s">>,
     \* 'panic in kernel'
     <<"p","a","n","i","c"," ","i","n"," ","k","e","r","n","e","l">>,
     \* 'kernel panic: Out of memory, oom_score 9 segfault'
     <<"k","e","r","n","e","l"," ","p","a","n","i","c",":"," ","O","u","t"," ","o","f"," ","m","e","m","o","r","y",","," ","o","o","m","_","s","c","o","r","e"," ","9"," ","s","e","g","f","a","u","l","t">>,
     \* ' allocation failure '
     <<" ","a","l","l","o","c","a","t","i","o","n"," ","f","a","i","l","u","r","e"," ">>}

\* what /var/log/kern.log can hold
LogInputs == UNION {[1..n -> SampleLines] : n \in 0..MaxLines}

\* a host whose only log origin is /var/log/kern.log, holding these lines
ScanHost(content) ==
    [IdleHost EXCEPT !.log_sources = <<LogFile(content), NoOrigin, NoOrigin>>]

InitScan ==
    /\ pc = "call"
    /\ host \in {ScanHost(ls) : ls \in LogInputs}
    /\ running = FALSE
    /\ iteration = 0
    /\ interval_seconds = DefaultInterval
    /\ tail_lines = DefaultLines
    /\ leak_process_pid = 0
    /\ now = 0
    /\ IdleMonitor /\ IdleAnalyzer /\ IdleReport /\ IdleTrend /\ IdleText

analyze_all_events_call_unrecorded ==
    /\ logs' = read_kernel_logs(host, DefaultLines)
    /\ analysis' = analyze_all_events(logs', now)
    /\ kernel_events' = kernel_events
    /\ now' = now + 1

\* the body of analyze_all_events: the lines are read, scanned twice, and
\* the analysis is appended to kernel_events; the clock has moved on when
\* it is read next
analyze_all_events_call ==
    /\ logs' = read_kernel_logs(host, DefaultLines)
    /\ analysis' = analyze_all_events(logs', now)
    /\ kernel_events' = Append(kernel_events, analysis')
    /\ now' = now + 1

\* one call of analyze_all_events
AnalyzeAllEvents ==
    /\ pc = "call"
    /\ analyze_all_events_call
    /\ pc' = "return"
    /\ UNCHANGED <<running, iteration, interval_seconds, tail_lines,
                   leak_process_pid, host,
                   monitoring_data, snapshot, warnings, processes,
                   reports, values, trend, report_text>>

NextScan == AnalyzeAllEvents

SpecScan == InitScan /\ [][NextScan]_vars

\* the indexes of the patterns of a list that match a line
Matching(patterns, line) ==
    {k \in 1..Len(patterns) : re_search(patterns[k], line)}

\* the lines of the log that are not blank and match some pattern
Hits(patterns) ==
    SelectSeq(logs, LAMBDA l : strip(l) # <<>> /\ Matching(patterns, l) # {})

\* the events of a scan are, in order, one per non-blank matching line,
\* each attributed to the lowest-index pattern that matches its line
FirstMatchWins(events, patterns) ==
    LET hits == Hits(patterns) IN
    /\ Len(events) = Len(hits)
    /\ \A j \in 1..Len(events) :
          /\ events[j].raw_line = strip(hits[j])
          /\ events[j].pattern = patterns[Min(Matching(patterns, hits[j]))]

SubtypeTable ==
    <<"KERNEL_PANIC", "KERNEL_BUG", "KERNEL_WARNING", "KERNEL_OOPS",
      "SEGFAULT", "UNKNOWN", "MEMORY_ALLOCATION_FAILURE",
      "MEMORY_ALLOCATION_FAILURE">>

----------------------------------------------------------------------------
(* SpecRescan: analyze_all_events called a second time on the same log      *)

MaxRescanLines == 3

\* log lines with and without a timestamp of their own
RescanLines ==
    {\* '2024-01-15T10:30:00 invoked oom-killer'
     <<"2","0","2","4","-","0","1","-","1","5","T","1","0",":","3","0",":","0","0"," ","i","n","v","o","k","e","d"," ","o","o","m","-","k","i","l","l","e","r">>,
     \* 'Out of memory: Killed process 9'
     <<"O","u","t"," ","o","f"," ","m","e","m","o","r","y",":"," ","K","i","l","l","e","d"," ","p","r","o","c","e","s","s"," ","9">>,
     \* 'segfault at 0'
     <<"s","e","g","f","a","u","l","t"," ","a","t"," ","0">>,
     \* '2024-01-15 10:31:07 kernel panic, oom_score=3'
     <<"2","0","2","4","-","0","1","-","1","5"," ","1","0",":","3","1",":","0","7"," ","k","e","r","n","e","l"," ","p","a","n","i","c",","," ","o","o","m","_","s","c","o","r","e","=","3">>,
     \* 'usb 1-1: new device'
     <<"u","s","b"," ","1","-","1",":"," ","n","e","w"," ","d","e","v","i","c","e">>}

RescanInputs == UNION {[1..n -> RescanLines] : n \in 0..MaxRescanLines}

\* the analyzer after a first call of analyze_all_events at clock value 0
InitRescan ==
    /\ pc = "call"
    /\ host \in {ScanHost(ls) : ls \in RescanInputs}
    /\ logs = read_kernel_logs(host, DefaultLines)
    /\ analysis = analyze_all_events(logs, 0)
    /\ kernel_events = <<analysis>>
    /\ now = 1
    /\ running = FALSE
    /\ iteration = 0
    /\ interval_seconds = DefaultInterval
    /\ tail_lines = DefaultLines
    /\ leak_process_pid = 0
    /\ IdleMonitor /\ IdleReport /\ IdleTrend /\ IdleText

SpecRescan == InitRescan /\ [][NextScan]_vars

\* the first and the second analysis of the same log
FirstScan == kernel_events[1]
SecondScan == kernel_events[2]

\* C15 as claimed: the two analyses have the same line count, the same
\* event sequences, timestamps included, and the same counts.
C15_RescanIdentical ==
    (pc = "return" /\ Len(kernel_events) = 2) =>
        /\ FirstScan.total_log_lines = SecondScan.total_log_lines
        /\ FirstScan.oom_events = SecondScan.oom_events
        /\ FirstScan.critical_events = SecondScan.critical_events
        /\ FirstScan.oom_events_count = SecondScan.oom_events_count
        /\ FirstScan.critical_events_count = SecondScan.critical_events_count

\* an event without its timestamp
WithoutTimestamp(e) == [k \in DOMAIN e \ {"timestamp"} |-> e[k]]

\* the line of the event holds a YYYY-MM-DD[ T]HH:MM:SS timestamp
HasOwnTimestamp(e) ==
    \E i \in 1..Len(e.raw_line) : TimestampAt(e.raw_line, i)

\* two event sequences agree in everything but the timestamps of the
\* events whose line holds none, which are the times of their scans
SameButScanTime(es1, t1, es2, t2) ==
    /\ Len(es1) = Len(es2)
    /\ \A j \in 1..Len(es1) :
          /\ WithoutTimestamp(es1[j]) = WithoutTimestamp(es2[j])
          /\ IF HasOwnTimestamp(es1[j])
             THEN es1[j].timestamp = es2[j].timestamp
             ELSE es1[j].timestamp = t1 /\ es2[j].timestamp = t2

\* C15 (amended): two runs of analyze_all_events on the same lines give
\* the same line count, the same counts and the same OOM and critical
\* event sequences (order, pattern, subtype, extracted fields, raw line),
\* and the same timestamp for every event whose line holds a timestamp;
\* an event whose line holds none carries the time of its scan, as does
\* the analysis itself, so these timestamps differ between the runs.
C15_RescanIdenticalButScanTime ==
    (pc = "return" /\ Len(kernel_events) = 2) =>
        /\ FirstScan.total_log_lines = SecondScan.total_log_lines
        /\ FirstScan.oom_events_count = SecondScan.oom_events_count
        /\ FirstScan.critical_events_count = SecondScan.critical_events_count
        /\ FirstScan.timestamp # SecondScan.timestamp
        /\ SameButScanTime(FirstScan.oom_events, FirstScan.timestamp,
                           SecondScan.oom_events, SecondScan.timestamp)
        /\ SameButScanTime(FirstScan.critical_events, FirstScan.timestamp,
                           SecondScan.critical_events, SecondScan.timestamp)

\* a log was scanned twice that holds an OOM line with a timestamp, an OOM
\* line without one and a critical line without one
C15_Witness ==
    /\ pc = "return"
    /\ Len(kernel_events) = 2
    /\ Len(SecondScan.oom_events) = 2
    /\ HasOwnTimestamp(SecondScan.oom_events[1])
    /\ ~HasOwnTimestamp(SecondScan.oom_events[2])
    /\ Len(SecondScan.critical_events) = 1
    /\ ~HasOwnTimestamp(SecondScan.critical_events[1])

----------------------------------------------------------------------------
(* SpecRead: read_kernel_logs on a host whose log origins are in any state  *)

ReadOutcomes == {"ok", "nonzero", "timeout", "error"}

\* the values of the argument "lines"
ReadCounts == {-1, 1, DefaultLines}

\* what the origins hold: /var/log/kern.log, /var/log/syslog,
\* /var/log/messages (an empty file) and the kernel ring buffer
OriginContents ==
    << << <<"k","1">>, <<"o","o","m","-","k","i","l","l","e","r">> >>,
       << <<"s","e","g","f","a","u","l","t">> >>,
       << >>,
       << <<"d","1">>, <<"d","2">> >> >>

\* the states origin i can be in
OriginStates(i) ==
    {NoOrigin}
        \cup {[exists |-> TRUE, outcome |-> o, content |-> OriginContents[i]] :
                    o \in ReadOutcomes}

ReadHosts ==
    {[IdleHost EXCEPT !.log_sources = <<a, b, c>>, !.dmesg = d] :
        a \in OriginStates(1), b \in OriginStates(2), c \in OriginStates(3),
        d \in OriginStates(4) \ {NoOrigin}}

InitRead ==
    /\ pc = "call"
    /\ host \in ReadHosts
    /\ tail_lines \in ReadCounts
    /\ running = FALSE
    /\ iteration = 0
    /\ interval_seconds = DefaultInterval
    /\ leak_process_pid = 0
    /\ now = 0
    /\ IdleMonitor /\ IdleAnalyzer /\ IdleReport /\ IdleTrend /\ IdleText

\* one call of read_kernel_logs(lines)
ReadKernelLogs ==
    /\ pc = "call"
    /\ logs' = read_kernel_logs(host, tail_lines)
    /\ pc' = "return"
    /\ UNCHANGED <<running, iteration, interval_seconds, tail_lines,
                   leak_process_pid, now, host, monitoring_data, snapshot,
                   warnings, processes, kernel_events, analysis, reports,
                   values, trend, report_text>>

NextRead == ReadKernelLogs

SpecRead == InitRead /\ [][NextRead]_vars

\* the origins in the order they are read
OriginsInOrder == host.log_sources \o <<host.dmesg>>

\* an origin that is there and whose command ended with exit code 0
Readable(o) == o.exists /\ o.outcome = "ok"

\* the lines obtained from origin i: for a file the last |lines| lines, for
\* the ring buffer all of them, then the empty text after the last newline
ObtainedFrom(i) ==
    LET c == OriginsInOrder[i].content
        n == IF tail_lines < 0 THEN -tail_lines ELSE tail_lines
        first == IF i = 4 \/ Len(c) <= n THEN 1 ELSE Len(c) - n + 1
    IN  [k \in 1..(Len(c) - first + 1) |-> c[first + k - 1]] \o << <<>> >>

\* C19: read_kernel_logs returns, without raising, the lines of every
\* origin that could be read, concatenated in the order kern.log, syslog,
\* messages, ring buffer; an origin that is absent, cannot be run, times
\* out or ends with a non-zero exit code contributes nothing and takes
\* nothing away from the others.
C19_ReadableOriginsAreRead ==
    pc = "return" =>
        logs = Concat([i \in 1..4 |->
                         IF Readable(OriginsInOrder[i])
                         THEN ObtainedFrom(i) ELSE <<>>])

\* kern.log was read, syslog timed out, messages ended with a non-zero
\* exit code and the ring buffer was read: the lines of kern.log and of
\* the ring buffer were returned
C19_Witness ==
    /\ pc = "return"
    /\ tail_lines = DefaultLines
    /\ Readable(host.log_sources[1])
    /\ host.log_sources[2].exists /\ host.log_sources[2].outcome = "timeout"
    /\ host.log_sources[3].exists /\ host.log_sources[3].outcome = "nonzero"
    /\ Readable(host.dmesg)
    /\ Len(logs) = 6
    /\ logs[2] = OriginContents[1][2]
    /\ logs[5] = OriginContents[4][2]

----------------------------------------------------------------------------
(* SpecTrend: _calculate_trend on one series                               *)

MaxSeries == 4

TrendValues == {10, 11, 15, 16, 20}

InitTrend ==
    /\ pc = "call"
    /\ values \in UNION {[1..n -> TrendValues] : n \in 0..MaxSeries}
    /\ trend = None
    /\ IdleDriver /\ IdleMonitor /\ IdleAnalyzer /\ IdleReport /\ IdleText

CalculateTrend ==
    /\ pc = "call"
    /\ trend' = calculate_trend(values)
    /\ pc' = "return"
    /\ UNCHANGED <<running, iteration, interval_seconds, tail_lines,
                   leak_process_pid, now, host,
                   monitoring_data, snapshot, warnings, processes,
                   kernel_events, logs, analysis, reports, values,
                   report_text>>

NextTrend == CalculateTrend

SpecTrend == InitTrend /\ [][NextTrend]_vars

\* C6: _calculate_trend returns INSUFFICIENT_DATA below two values;
\* otherwise, with the first half the first len div 2 values, the second
\* half the rest and diff the difference of their means, STABLE when
\* |diff| < 1, INCREASING when diff > 5, DECREASING when diff < -5,
\* SLIGHTLY_INCREASING when 1 <= diff <= 5 and SLIGHTLY_DECREASING when
\* -5 <= diff <= -1.
C6_Trend ==
    pc = "return" =>
        LET n == Len(values)
            n1 == n \div 2
            n2 == n - n1
            s1 == Sum(SubSeq(values, 1, n1))
            s2 == Sum(SubSeq(values, n1 + 1, n))
            \* diff = s2 / n2 - s1 / n1 = num / den
            num == s2 * n1 - s1 * n2
            den == n1 * n2
        IN  IF n < 2 THEN trend = "INSUFFICIENT_DATA"
            ELSE /\ (trend = "STABLE") <=> (num < den /\ num > -den)
                 /\ (trend = "INCREASING") <=> (num > 5 * den)
                 /\ (trend = "DECREASING") <=> (num < -5 * den)
                 /\ (trend = "SLIGHTLY_INCREASING")
                        <=> (num >= den /\ num <= 5 * den)
                 /\ (trend = "SLIGHTLY_DECREASING")
                        <=> (num <= -den /\ num >= -5 * den)

\* an odd-length series whose extra element decides the trend has been
\* classified: means 10 and 15.5, diff 5.5
C6_Witness ==
    /\ pc = "return"
    /\ values = <<10, 11, 20>>
    /\ trend = "INCREASING"

----------------------------------------------------------------------------
(* SpecReport: generate_report on given histories, called repeatedly       *)

MaxHistory == 2
MaxAnalyses == 2
MaxReports == 2
StormLines == 26
OomStormLines == 9

\* the counters of the snapshots of the histories:
\* <<memory %, available MB, swap %, swap total MB, swap used MB,
\*   swap free MB, cpu %>>
ReportProfiles ==
    {<<75, 50, 50, 100, 50, 50, 80>>,         \* at the WARNING cutoffs
     <<90, 100, 80, 500, 400, 100, 90>>,      \* at the CRITICAL cutoffs
     <<91, 40, 10, 2000, 200, 1800, 10>>,     \* memory above CRITICAL
     <<50, 4000, 51, 2000, 1020, 980, 10>>,   \* swap above WARNING
     <<50, 4000, 81, 400, 324, 76, 10>>,      \* swap above CRITICAL
     <<50, 4000, 0, 0, 0, 0, 95>>,            \* cpu above CRITICAL, no swap
     <<95, 40, 85, 400, 340, 60, 95>>}        \* everything above CRITICAL

\* the snapshot collect_snapshot returns at clock value t on a host with
\* these counters and no process that could be inspected
ProfileSnapshot(c, t) ==
    MkSnapshot(IsoFormat(t), c[1], c[2], c[3], c[4], c[5], c[6], c[7], <<>>)

\* histories of n snapshots taken at clock values 1..n
SnapshotHistories(n) ==
    {[i \in 1..n |-> ProfileSnapshot(c[i], i)] : c \in [1..n -> ReportProfiles]}

\* the logs of the analyses of the histories: no event; an OOM kill of
\* firefox, a protection fault and an OOM kill of chrome; a storm of lines
\* that each are a critical event, the first of them an OOM event that
\* names no process too
ReportLogs ==
    {<<>>,
     <<<<"O","O","M"," ","k","i","l","l","e","r",":"," ","p","r","o","c","e","s","s"," ","f","i","r","e","f","o","x">>,
       <<"g","e","n","e","r","a","l"," ","p","r","o","t","e","c","t","i","o","n"," ","f","a","u","l","t">>,
       <<"k","i","l","l","e","d"," ","p","r","o","c","e","s","s"," ","c","h","r","o","m","e">>>>,
     [i \in 1..StormLines |->
        IF i <= OomStormLines
        THEN <<"o","o","m","_","s","c","o","r","e"," ","s","e","g","f","a","u","l","t">>
        ELSE <<"s","e","g","f","a","u","l","t">>]}

\* histories of n analyses made at clock values 1..n
AnalysisHistories(n) ==
    {[i \in 1..n |-> analyze_all_events(c[i], i)] : c \in [1..n -> ReportLogs]}

\* the histories generate_report is called on
ReportSnapshotHistories == UNION {SnapshotHistories(n) : n \in 0..MaxHistory}
ReportAnalysisHistories == UNION {AnalysisHistories(n) : n \in 0..MaxAnalyses}

InitReport ==
    /\ pc = "call"
    /\ monitoring_data \in ReportSnapshotHistories
    /\ kernel_events \in ReportAnalysisHistories
    /\ leak_process_pid \in TrackedPids
    /\ now = MaxHistory + MaxAnalyses + 1
    /\ reports = <<>>
    /\ running = FALSE
    /\ iteration = 0
    /\ interval_seconds = DefaultInterval
    /\ tail_lines = DefaultLines
    /\ host = IdleHost
    /\ snapshot = None
    /\ warnings = <<>>
    /\ processes = None
    /\ logs = <<>>
    /\ analysis = None
    /\ IdleTrend /\ IdleText

\* one call of generate_report on the histories; the clock has moved on
\* when the next call reads it
GenerateReport ==
    /\ Len(reports) < MaxReports
    /\ LET r == generate_report_call(monitoring_data, kernel_events,
                                     leak_process_pid, now) IN
          /\ reports' = Append(reports, r.returned)
          /\ monitoring_data' = r.monitoring_data
          /\ kernel_events' = r.kernel_events
    /\ now' = now + 1
    /\ pc' = "return"
    /\ UNCHANGED <<running, iteration, interval_seconds, tail_lines,
                   leak_process_pid, host, snapshot,
                   warnings, processes, logs, analysis, values, trend, report_text>>

NextReport == GenerateReport

SpecReport == InitReport /\ [][NextReport]_vars

\* the last report returned
LastReport == reports[Len(reports)]

\* C7: for a non-empty snapshot history the status of the executive summary
\* is CRITICAL exactly when some memory percent is above 90, some swap
\* percent is above 80 or the OOM counts of the analyses sum to more than 0;
\* otherwise WARNING exactly when some memory percent is above 75, some
\* swap percent is above 50 or the critical counts sum to more than 0;
\* otherwise NORMAL.  The cpu percent has no part in it.
C7_SummaryStatus ==
    (reports # <<>> /\ monitoring_data # <<>>) =>
        LET md == monitoring_data
            ke == kernel_events
            status == LastReport.executive_summary.status
            critical ==
                \/ \E i \in 1..Len(md) : md[i].memory.percent > 90
                \/ \E i \in 1..Len(md) : md[i].swap.percent > 80
                \/ Sum([j \in 1..Len(ke) |-> ke[j].oom_events_count]) > 0
            warning ==
                \/ \E i \in 1..Len(md) : md[i].memory.percent > 75
                \/ \E i \in 1..Len(md) : md[i].swap.percent > 50
                \/ Sum([j \in 1..Len(ke) |-> ke[j].critical_events_count]) > 0
        IN  /\ (status = "CRITICAL") <=> critical
            /\ (status = "WARNING") <=> (~critical /\ warning)
            /\ (status = "NORMAL") <=> (~critical /\ ~warning)

\* a report on a history whose cpu percent is above 90 and whose memory and
\* swap are calm, with no kernel event, has status NORMAL
C7_Witness ==
    /\ reports # <<>>
    /\ monitoring_data # <<>>
    /\ \E i \in 1..Len(monitoring_data) :
          monitoring_data[i].cpu.total_percent > 90
    /\ LastReport.executive_summary.status = "NORMAL"

\* C8: generate_report on an empty snapshot history, whatever the analysis
\* history and the tracked pid, returns a report whose executive summary
\* holds the 'no data' status and nothing else and whose memory, cpu and
\* swap blocks are empty.
C8_EmptyHistoryReport ==
    monitoring_data = <<>> =>
        \A i \in 1..Len(reports) :
            /\ reports[i].executive_summary = [status |-> "NO_DATA"]
            /\ DOMAIN reports[i].memory_analysis = {}
            /\ DOMAIN reports[i].cpu_analysis = {}
            /\ DOMAIN reports[i].swap_analysis = {}

\* a report was returned for an empty snapshot history, a tracked pid and
\* an analysis history that holds OOM events
C8_Witness ==
    /\ monitoring_data = <<>>
    /\ reports # <<>>
    /\ leak_process_pid # 0
    /\ kernel_events # <<>>
    /\ LastReport.oom_analysis.oom_events_detected

\* a report without its generation time
WithoutGenerationTime(r) ==
    [r EXCEPT !.report_metadata = [monitoring_periods |-> @.monitoring_periods,
                                   kernel_analyses |-> @.kernel_analyses]]

Breaches(s) ==
    (IF s.memory.percent > 90 THEN <<"memory">> ELSE <<>>)
    \o (IF s.swap.percent > 80 THEN <<"swap">> ELSE <<>>)
    \o (IF s.cpu.total_percent > 90 THEN <<"cpu">> ELSE <<>>)

\* every CriticalEvent of every analysis, in history order
AllCriticalEvents ==
    Concat([j \in 1..Len(kernel_events) |-> kernel_events[j].critical_events])

\* C10 as claimed: the roll-up lists one RESOURCE_CRITICAL entry for each
\* warning of each snapshot, then the CriticalEvents, cut to 50 entries.
C10_OneEntryPerWarning ==
    reports # <<>> =>
        LET events == LastReport.critical_events.events
            nWarnings ==
                Len(Concat([i \in 1..Len(monitoring_data) |->
                                Breaches(monitoring_data[i])]))
            expected == nWarnings + Len(AllCriticalEvents)
        IN  /\ Len(events) = (IF expected > 50 THEN 50 ELSE expected)
            /\ \A k \in 1..Len(events) :
                  (events[k].type = "RESOURCE_CRITICAL") <=> (k <= nWarnings)

\* C10 (amended): the roll-up's events list is the first 50 entries of the
\* list formed by one RESOURCE_CRITICAL entry for each snapshot that is
\* above at least one of the cutoffs memory 90, swap 80, cpu 90, in history
\* order, the entry carrying the snapshot's timestamp and one warning per
\* cutoff it is above, in the order memory, swap, cpu, followed by every
\* CriticalEvent of every analysis in history order; other snapshots
\* contribute nothing and neither the WARNING tiers nor the available
\* memory are used.
C10_OneEntryPerSnapshot ==
    reports # <<>> =>
        LET events == LastReport.critical_events.events
            above == SelectSeq(monitoring_data, LAMBDA s : Breaches(s) # <<>>)
            kernel == AllCriticalEvents
            n == Len(above) + Len(kernel)
        IN  /\ Len(events) = (IF n > 50 THEN 50 ELSE n)
            /\ \A k \in 1..Len(events) :
                  IF k <= Len(above)
                  THEN /\ events[k].type = "RESOURCE_CRITICAL"
                       /\ events[k].timestamp = above[k].timestamp
                       /\ [w \in 1..Len(events[k].warnings) |->
                              events[k].warnings[w].resource]
                            = Breaches(above[k])
                  ELSE events[k] = kernel[k - Len(above)]

\* a report on a snapshot above all three cutoffs, a second snapshot above
\* one, and more kernel events than the list keeps
C10_Witness ==
    /\ reports # <<>>
    /\ Len(monitoring_data) = 2
    /\ Len(Breaches(monitoring_data[1])) = 3
    /\ Len(Breaches(monitoring_data[2])) = 1
    /\ Len(AllCriticalEvents) > 50
    /\ Len(LastReport.critical_events.events) = 50

\* every OomEvent of every analysis, in history order
AllOomEvents ==
    Concat([j \in 1..Len(kernel_events) |-> kernel_events[j].oom_events])

\* C11: the OOM roll-up of a report over the concatenation E of the
\* OomEvents of all analyses says "not detected" with total 0 when E is
\* empty; otherwise its total is the length of E, processes_killed has one
\* key per process name carried by an event of E, mapped to the number of
\* events carrying it (events without a name are in the total only), and
\* recent_oom_events is the last min(10, len(E)) events of E in order.
C11_OomRollUp ==
    reports # <<>> =>
        LET E == AllOomEvents
            oom == LastReport.oom_analysis
            named == {i \in 1..Len(E) : E[i].process_name # Nothing}
            kept == IF Len(E) > 10 THEN 10 ELSE Len(E)
        IN  IF E = <<>>
            THEN oom = [oom_events_detected |-> FALSE, total_oom_events |-> 0]
            ELSE /\ oom.oom_events_detected = TRUE
                 /\ oom.total_oom_events = Len(E)
                 /\ DOMAIN oom.processes_killed
                        = {E[i].process_name[1] : i \in named}
                 /\ \A n \in DOMAIN oom.processes_killed :
                        oom.processes_killed[n]
                          = Cardinality({i \in named : E[i].process_name[1] = n})
                 /\ Sum([i \in 1..Len(E) |->
                            IF i \in named THEN 1 ELSE 0]) <= oom.total_oom_events
                 /\ Len(oom.recent_oom_events) = kept
                 /\ \A k \in 1..kept :
                        oom.recent_oom_events[k] = E[Len(E) - kept + k]

\* a report on analyses that hold more than 10 OOM events, two of them
\* naming different processes and others naming none
C11_Witness ==
    /\ reports # <<>>
    /\ Len(AllOomEvents) > 10
    /\ \E i \in 1..Len(AllOomEvents) : AllOomEvents[i].process_name = Nothing
    /\ Cardinality(DOMAIN LastReport.oom_analysis.processes_killed) = 2
    /\ LastReport.oom_analysis.total_oom_events > 2

\* the flags the exhaustion rule gives a snapshot: <<resource, severity>>
ExhaustionOf(s) ==
    (IF s.memory.available_mb < 50 THEN {<<"MEMORY", "CRITICAL">>} ELSE {})
    \cup (IF s.swap.free_mb < 100 /\ s.swap.total_mb > 0
           THEN {<<"SWAP", "WARNING">>} ELSE {})

\* C12: for a non-empty history the resource-exhaustion roll-up lists, in
\* history order, exactly the snapshots that have at least one flag, each
\* with its timestamp and its flags: MEMORY/CRITICAL iff available_mb < 50,
\* SWAP/WARNING iff swap free_mb < 100 and swap total_mb > 0;
\* exhaustion_events_count is the number of snapshots listed.
C12_ExhaustionRollUp ==
    (reports # <<>> /\ monitoring_data # <<>>) =>
        LET ex == LastReport.resource_exhaustion
            flagged == SelectSeq(monitoring_data,
                                 LAMBDA s : ExhaustionOf(s) # {})
        IN  /\ ex.exhaustion_events_count = Len(flagged)
            /\ Len(ex.events) = Len(flagged)
            /\ \A k \in 1..Len(flagged) :
                  /\ ex.events[k].timestamp = flagged[k].timestamp
                  /\ Len(ex.events[k].events)
                        = Cardinality(ExhaustionOf(flagged[k]))
                  /\ {<<ex.events[k].events[f].resource,
                         ex.events[k].events[f].severity>> :
                            f \in 1..Len(ex.events[k].events)}
                        = ExhaustionOf(flagged[k])

\* a report on a host without swap whose free swap is 0, which is not
\* listed, followed by a snapshot that carries both flags
C12_Witness ==
    /\ reports # <<>>
    /\ Len(monitoring_data) = 2
    /\ monitoring_data[1].swap.total_mb = 0
    /\ monitoring_data[1].swap.free_mb < 100
    /\ Cardinality(ExhaustionOf(monitoring_data[2])) = 2
    /\ LastReport.resource_exhaustion.exhaustion_events_count = 1
    /\ LastReport.resource_exhaustion.events[1].timestamp
          = monitoring_data[2].timestamp

\* the rules whose condition holds on the histories, in the order memory,
\* swap, OOM, cpu
RulesThatApply ==
    LET md == monitoring_data
        ke == kernel_events
    IN  (IF \E i \in 1..Len(md) : md[i].memory.percent > 90
            THEN <<"MEMORY">> ELSE <<>>)
        \o (IF \E i \in 1..Len(md) : md[i].swap.percent > 80
            THEN <<"SWAP">> ELSE <<>>)
        \o (IF Len(AllOomEvents) > 0 THEN <<"OOM">> ELSE <<>>)
        \o (IF \E i \in 1..Len(md) : md[i].cpu.total_percent > 90
            THEN <<"CPU">> ELSE <<>>)

\* C14: for a non-empty snapshot history the recommendations are, in this
\* order and each independently of the others, the memory message iff some
\* memory percent is above 90, the swap message iff some swap percent is
\* above 80, the OOM message iff the OOM total is above 0 and the cpu
\* message iff some cpu percent is above 90; the list is never empty, and
\* the 'operated normally' message is there iff none of the four holds,
\* and then it is the only entry.
C14_Recommendations ==
    (reports # <<>> /\ monitoring_data # <<>>) =>
        LET recs == LastReport.recommendations
            rules == [i \in 1..Len(recs) |-> recs[i][1]]
        IN  /\ recs # <<>>
            /\ rules = (IF RulesThatApply = <<>> THEN <<"NORMAL">>
                        ELSE RulesThatApply)
            /\ (\E i \in 1..Len(recs) : rules[i] = "NORMAL")
                    <=> RulesThatApply = <<>>

\* a report whose recommendations are all four messages
C14_Witness ==
    /\ reports # <<>>
    /\ monitoring_data # <<>>
    /\ Len(RulesThatApply) = 4
    /\ Len(LastReport.recommendations) = 4

\* the rules of the recommendations of the last report
RecommendedRules ==
    {LastReport.recommendations[i][1] :
        i \in 1..Len(LastReport.recommendations)}

\* C24: in every report generated from a non-empty snapshot history the
\* status of the executive summary is CRITICAL if and only if the
\* recommendations hold the memory, the swap or the OOM recommendation; the
\* cpu recommendation alone never comes with the status CRITICAL.
C24_CriticalIffRecommended ==
    (reports # <<>> /\ monitoring_data # <<>>) =>
        /\ (LastReport.executive_summary.status = "CRITICAL")
              <=> (RecommendedRules \cap {"MEMORY", "SWAP", "OOM"} # {})
        /\ RecommendedRules = {"CPU"}
              => LastReport.executive_summary.status # "CRITICAL"

\* a report whose only recommendation is the cpu one and whose status is
\* WARNING, and which was generated from analyses
C24_Witness ==
    /\ reports # <<>>
    /\ monitoring_data # <<>>
    /\ kernel_events # <<>>
    /\ RecommendedRules = {"CPU"}
    /\ LastReport.executive_summary.status = "WARNING"

----------------------------------------------------------------------------
(* SpecRender: generate_report on given histories and save_report of the    *)
(* report it returned                                                       *)

\* save_report(report, 'both') on the last report: the JSON file is
\* written, then the text is rendered and written; an exception of
\* _format_report_text leaves save_report
SaveReport ==
    /\ pc = "return"
    /\ reports # <<>>
    /\ LET r == format_report_text(reports[Len(reports)]) IN
          IF r.raised = None
          THEN report_text' = r.value /\ pc' = "saved"
          ELSE report_text' = report_text /\ pc' = r.raised
    /\ UNCHANGED <<running, iteration, interval_seconds, tail_lines,
                   leak_process_pid, now, host, monitoring_data, snapshot,
                   warnings, processes, kernel_events, logs, analysis,
                   reports, values, trend>>

NextRender ==
    \/ GenerateReport
    \/ SaveReport

SpecRender == InitReport /\ [][NextRender]_vars

\* the titles of the sections of the text, in the order of their lines
SectionTitles ==
    LET titles == SelectSeq(report_text, LAMBDA l : l[1] = "TITLE")
    IN  [i \in 1..Len(titles) |-> titles[i][2]]

SectionOrder ==
    <<"REPORT", "SUMMARY", "MEMORY", "CPU", "SWAP", "OOM",
      "CRITICAL_EVENTS", "EXHAUSTION", "RECOMMENDATIONS", "END">>

\* C26: the text rendering succeeds for every report generate_report can
\* return, the 'no data' report of an empty snapshot history included, and
\* the text has the sections in the order summary, memory, cpu, swap, OOM,
\* critical events, exhaustion, recommendations.
C26_TextRenderingSucceeds ==
    (reports # <<>> /\ pc \notin {"call", "return"}) =>
        /\ pc = "saved"
        /\ SectionTitles = SectionOrder

----------------------------------------------------------------------------
(* SpecTrack: generate_report on histories of snapshots that                *)
(* collect_snapshot took of a host while the tracked process came and went  *)

MaxTrackHistory == 3

\* the snapshots collect_snapshot(pid) can return at clock value t on a
\* calm host with an empty process table
TrackSnapshots(pid, t) ==
    {collect_snapshot(CalmHost(<<>>, l), pid, t).value : l \in LeakProcs}

\* the histories of at most n such snapshots, taken at clock values 1..k
TrackHistories(pid, n) ==
    UNION {{h \in [1..k -> UNION {TrackSnapshots(pid, t) : t \in 1..k}] :
                \A t \in 1..k : h[t] \in TrackSnapshots(pid, t)} :
           k \in 0..n}

InitTrack ==
    /\ pc = "call"
    /\ leak_process_pid \in TrackedPids
    /\ monitoring_data \in TrackHistories(leak_process_pid, MaxTrackHistory)
    /\ kernel_events = <<>>
    /\ now = MaxTrackHistory + 1
    /\ reports = <<>>
    /\ running = FALSE
    /\ iteration = 0
    /\ interval_seconds = DefaultInterval
    /\ tail_lines = DefaultLines
    /\ host = IdleHost
    /\ snapshot = None
    /\ warnings = <<>>
    /\ processes = None
    /\ logs = <<>>
    /\ analysis = None
    /\ IdleTrend /\ IdleText

SpecTrack == InitTrack /\ [][NextReport]_vars

\* the snapshots of the history that carry a trackedProcess
Carrying == SelectSeq(monitoring_data, LAMBDA s : "leak_process" \in DOMAIN s)

\* C13: with a tracked pid the report has a tracked-process roll-up: one
\* history entry per snapshot that carried a trackedProcess, in history
\* order, with that snapshot's timestamp and the trackedProcess's
\* memory_mb; max_memory_mb is the largest memory_mb of the entries and
\* memory_growth the last entry's memory_mb minus the first's; when no
\* snapshot carried a trackedProcess the roll-up is the 'not found' status.
\* Without a tracked pid the report has no tracked-process section.
C13_TrackedProcessRollUp ==
    reports # <<>> =>
        IF leak_process_pid = 0
        THEN "leak_process_tracking" \notin DOMAIN LastReport
        ELSE /\ "leak_process_tracking" \in DOMAIN LastReport
             /\ LET t == LastReport.leak_process_tracking
                    c == Carrying
                IN  IF c = <<>> THEN t = [status |-> "NOT_FOUND"]
                    ELSE /\ Len(t.history) = Len(c)
                         /\ \A k \in 1..Len(c) :
                               /\ t.history[k].timestamp = c[k].timestamp
                               /\ "memory_mb" \in DOMAIN c[k].leak_process
                                     => t.history[k].memory_mb
                                            = c[k].leak_process.memory_mb
                         /\ \A k \in 1..Len(c) :
                               t.max_memory_mb >= t.history[k].memory_mb
                         /\ \E k \in 1..Len(c) :
                               t.max_memory_mb = t.history[k].memory_mb
                         /\ t.memory_growth
                               = t.history[Len(c)].memory_mb
                                    - t.history[1].memory_mb

\* a report on a history of three snapshots: the tracked process at 20 MB,
\* then gone, then back at 10 MB
C13_Witness ==
    /\ reports # <<>>
    /\ leak_process_pid # 0
    /\ Len(monitoring_data) = 3
    /\ Len(Carrying) = 2
    /\ "leak_process" \notin DOMAIN monitoring_data[2]
    /\ LastReport.leak_process_tracking.max_memory_mb = 20
    /\ LastReport.leak_process_tracking.memory_growth = -10

----------------------------------------------------------------------------
(* Spec: the polling loop of SystemMonitor.start_monitoring, the signal     *)
(* handler and stop_monitoring.  Writing the snapshot, analysis and report  *)
(* files is taken to succeed.                                               *)

MaxCycles == 11

\* interval_minutes * 60 for interval_minutes 5 and -1
DriverIntervals == {DefaultInterval, -60}

\* the kernel log of the monitored host
DriverLog ==
    <<\* 'Out of memory: Killed process 9'
      <<"O","u","t"," ","o","f"," ","m","e","m","o","r","y",":"," ","K","i","l","l","e","d"," ","p","r","o","c","e","s","s"," ","9">>>>

\* a kernel log with a critical event that is no OOM event
FaultLog ==
    <<\* 'segfault at 0'
      <<"s","e","g","f","a","u","l","t"," ","a","t"," ","0">>>>

\* the cycles between two changes of the load of the monitored host
LoadPeriod == 5

\* the loads of the monitored host, <<memory %, kernel log>>: calm, memory
\* above the WARNING cutoff, memory above the CRITICAL cutoff, a critical
\* event in the log, an OOM kill in the log
DriverLoads ==
    {<<50, <<>>>>, <<80, <<>>>>, <<95, <<>>>>,
     <<50, FaultLog>>, <<50, DriverLog>>}

DriverHost(load, fate) ==
    [CalmHost(<<Proc(1, 10, fate)>>, Proc(7, 20, "ok"))
        EXCEPT !.mem = load[1],
               !.log_sources = <<LogFile(load[2]), NoOrigin, NoOrigin>>]

LoadOf(h) == <<h.mem, h.log_sources[1].content>>

\* what the host can answer during a cycle: it has one of the loads, and
\* every process can be inspected or one of them denies access
DriverHosts ==
    {DriverHost(l, f) : l \in DriverLoads, f \in {"ok", "AccessDenied"}}

\* what the host can answer during cycle i after it was h: the load
\* changes in the first cycle of a period only
HostsAfter(h, i) ==
    {g \in DriverHosts : i % LoadPeriod # 1 => LoadOf(g) = LoadOf(h)}

\* SystemMonitor.__init__ has run
Init ==
    /\ pc = "start"
    /\ running = FALSE
    /\ iteration = 0
    /\ interval_seconds \in DriverIntervals
    /\ tail_lines = DefaultLines
    /\ leak_process_pid \in TrackedPids
    /\ now = 0
    /\ host = DriverHost(<<50, <<>>>>, "ok")
    /\ IdleMonitor /\ IdleAnalyzer /\ IdleReport /\ IdleTrend /\ IdleText

\* start_monitoring up to the loop
StartMonitoring ==
    /\ pc = "start"
    /\ running' = TRUE
    /\ iteration' = 0
    /\ pc' = "loop"
    /\ UNCHANGED <<interval_seconds, tail_lines, leak_process_pid, now, host,
                   monitoring_data, snapshot, warnings, processes,
                   kernel_events, logs, analysis, reports, values, trend, report_text>>

\* while self.running: iteration += 1; leaving the loop enters finally
LoopTest ==
    /\ pc = "loop"
    /\ running => iteration < MaxCycles
    /\ IF running
       THEN iteration' = iteration + 1 /\ pc' = "collect"
       ELSE iteration' = iteration /\ pc' = "finally"
    /\ UNCHANGED <<running, interval_seconds, tail_lines, leak_process_pid,
                   now, host, monitoring_data, snapshot, warnings, processes,
                   kernel_events, logs, analysis, reports, values, trend, report_text>>

\* collect_snapshot, save_snapshot and check_critical_conditions; an
\* exception of collect_snapshot is caught by "except Exception" and
\* leads to finally
CollectCycle ==
    /\ pc = "collect"
    /\ \E h \in HostsAfter(host, iteration) :
          /\ host' = h
          /\ LET r == collect_snapshot(h, leak_process_pid, now) IN
             IF r.raised = None
             THEN /\ snapshot' = r.value
                  /\ monitoring_data' = Append(monitoring_data, r.value)
                  /\ warnings' = check_critical_conditions(r.value)
                  /\ pc' = "analyze"
             ELSE /\ UNCHANGED <<snapshot, monitoring_data, warnings>>
                  /\ pc' = "finally"
    /\ now' = now + 1
    /\ UNCHANGED <<running, iteration, interval_seconds, tail_lines,
                   leak_process_pid, processes, kernel_events, logs,
                   analysis, reports, values, trend, report_text>>

\* analyze_all_events and save_analysis
AnalyzeCycle ==
    /\ pc = "analyze"
    /\ analyze_all_events_call
    /\ pc' = "report"
    /\ UNCHANGED <<running, iteration, interval_seconds, tail_lines,
                   leak_process_pid, host, monitoring_data, snapshot,
                   warnings, processes, reports, values, trend, report_text>>

\* if iteration % 5 == 0: self._generate_report()
ReportCycle ==
    /\ pc = "report"
    /\ IF report_due(iteration)
       THEN /\ reports' = generate_report_if_data(reports, monitoring_data,
                                kernel_events, leak_process_pid, now)
            /\ report_text' = save_report_if_data(report_text,
                                monitoring_data, kernel_events,
                                leak_process_pid, now)
            /\ LET h == histories_after_report(monitoring_data,
                            kernel_events, leak_process_pid, now) IN
                  /\ monitoring_data' = h.monitoring_data
                  /\ kernel_events' = h.kernel_events
            /\ now' = now + 1
       ELSE UNCHANGED <<reports, report_text, monitoring_data,
                        kernel_events, now>>
    /\ pc' = "wait"
    /\ UNCHANGED <<running, iteration, interval_seconds, tail_lines,
                   leak_process_pid, host, snapshot, warnings, processes,
                   logs, analysis, values, trend>>

\* if self.running: for _ in range(self.interval_seconds): ... sleep(1);
\* a range of a negative length is empty, so nothing is slept
WaitCycle ==
    /\ pc = "wait"
    /\ now' = IF running /\ interval_seconds > 0 THEN now + 1 ELSE now
    /\ pc' = "loop"
    /\ UNCHANGED <<running, iteration, interval_seconds, tail_lines,
                   leak_process_pid, host, monitoring_data, snapshot,
                   warnings, processes, kernel_events, logs, analysis,
                   reports, values, trend, report_text>>

\* stop_monitoring, called from finally
StopMonitoring ==
    /\ pc = "finally"
    /\ running' = FALSE
    /\ reports' = generate_report_if_data(reports, monitoring_data,
                        kernel_events, leak_process_pid, now)
    /\ report_text' = save_report_if_data(report_text, monitoring_data,
                            kernel_events, leak_process_pid, now)
    /\ LET h == histories_after_report(monitoring_data, kernel_events,
                                        leak_process_pid, now) IN
          /\ monitoring_data' = h.monitoring_data
          /\ kernel_events' = h.kernel_events
    /\ now' = now + 1
    /\ pc' = "done"
    /\ UNCHANGED <<iteration, interval_seconds, tail_lines,
                   leak_process_pid, host, snapshot, warnings, processes,
                   logs, analysis, values, trend>>

SignalHandler_interrupting ==
    /\ running
    /\ running' = FALSE
    /\ pc' = IF pc \in {"collect", "analyze", "report", "wait"}
             THEN "finally" ELSE pc
    /\ UNCHANGED <<iteration, interval_seconds, tail_lines,
                   leak_process_pid, now, host, monitoring_data, snapshot,
                   warnings, processes, kernel_events, logs, analysis,
                   reports, values, trend, report_text>>

\* _signal_handler, on SIGINT or SIGTERM at any moment
SignalHandler ==
    /\ running
    /\ running' = FALSE
    /\ UNCHANGED <<pc, iteration, interval_seconds, tail_lines,
                   leak_process_pid, now, host, monitoring_data, snapshot,
                   warnings, processes, kernel_events, logs, analysis,
                   reports, values, trend, report_text>>

Next ==
    \/ SignalHandler
    \/ StartMonitoring
    \/ LoopTest
    \/ CollectCycle
    \/ AnalyzeCycle
    \/ ReportCycle
    \/ WaitCycle
    \/ StopMonitoring

Spec == Init /\ [][Next]_vars

\* the cycles that have run to their end: each has appended its analysis
\* and passed the report statement
CyclesEnded ==
    IF pc = "report" THEN Len(kernel_events) - 1 ELSE Len(kernel_events)

\* report k was generated from the first n snapshots and analyses
ReportCovers(k, n) ==
    /\ reports[k].report_metadata.monitoring_periods = n
    /\ reports[k].report_metadata.kernel_analyses = n

\* the reports of the cycles 5, 10, ... that have ended are there, each
\* generated from the histories as they were at the end of its cycle, and
\* no other report is generated before the monitoring stops
PeriodicReports ==
    /\ Len(reports) >= CyclesEnded \div 5
    /\ \A k \in 1..(CyclesEnded \div 5) : ReportCovers(k, 5 * k)
    /\ pc # "done" => Len(reports) = CyclesEnded \div 5

\* the last report was generated from the full histories
LastReportIsFull ==
    /\ LastReport.report_metadata.monitoring_periods = Len(monitoring_data)
    /\ LastReport.report_metadata.kernel_analyses = Len(kernel_events)

\* C18 as claimed: a report is generated at the end of every 5th cycle and
\* once more when the monitoring stops, whatever stopped it, each from the
\* full histories.
C18_ReportEveryFifthAndAtStop ==
    /\ PeriodicReports
    /\ pc = "done" =>
          /\ Len(reports) = CyclesEnded \div 5 + 1
          /\ LastReportIsFull

\* C18 (amended): a report is generated at the end of every 5th cycle that
\* runs to its end, from the full histories, and once more when the
\* monitoring stops, by a signal or by an exception inside a cycle,
\* provided the snapshot history is not empty; when the monitoring stops
\* before any snapshot was collected no report is generated.
C18_ReportEveryFifthAndAtStopWithData ==
    /\ PeriodicReports
    /\ pc = "done" =>
          IF monitoring_data = <<>>
          THEN reports = <<>>
          ELSE /\ Len(reports) = CyclesEnded \div 5 + 1
               /\ LastReportIsFull

\* the monitoring was stopped by an exception in its 11th cycle: reports
\* were generated at the end of cycles 5 and 10 and at the stop
C18_Witness ==
    /\ pc = "done"
    /\ iteration = 11
    /\ Len(monitoring_data) = 10
    /\ Len(reports) = 3
    /\ ReportCovers(3, 10)

\* the history is left as it is or has one new record at its end
AppendedTo(before, after) ==
    \/ after = before
    \/ /\ Len(after) = Len(before) + 1
       /\ SubSeq(after, 1, Len(before)) = before

\* the seconds of a timestamp of the model's clock
SecondsOf(ts) == ParseInt(SubSeq(ts, Len(ts) - 1, Len(ts)))

\* the records of the history are in the order of their timestamps
InCaptureOrder(history) ==
    \A i \in 1..Len(history) : \A j \in i..Len(history) :
        SecondsOf(history[i].timestamp) <= SecondsOf(history[j].timestamp)

\* C21: across a run of the driver every step leaves the snapshot history
\* and the analysis history unchanged or adds exactly one record at its
\* end; no record is removed, moved or modified, by report generation
\* neither; and the records of each history are in capture order.
C21_HistoriesAppendOnly ==
    /\ [][/\ AppendedTo(monitoring_data, monitoring_data')
          /\ AppendedTo(kernel_events, kernel_events')]_vars
    /\ [](InCaptureOrder(monitoring_data) /\ InCaptureOrder(kernel_events))

\* the monitoring has stopped after three reports were generated from
\* histories of ten records each
C21_Witness ==
    /\ pc = "done"
    /\ Len(reports) = 3
    /\ Len(monitoring_data) = 10
    /\ Len(kernel_events) = 10
    /\ monitoring_data[1].memory.percent # monitoring_data[10].memory.percent

\* the positions of the driver inside a cycle
InCycle == pc \in {"collect", "analyze", "report", "wait"}

\* a step that clears the running flag while a cycle is in progress or
\* the loop is at its head changes nothing else
OnlyFlagCleared ==
    (running /\ ~running' /\ pc # "finally") =>
        UNCHANGED <<pc, iteration, interval_seconds, tail_lines,
                    leak_process_pid, now, host, monitoring_data, snapshot,
                    warnings, processes, kernel_events, logs, analysis,
                    reports, values, trend, report_text>>

\* the statements of a cycle do what they do whether the flag is set or
\* cleared: the snapshot is taken, saved and checked (the cycle ends
\* early only when collect_snapshot itself raises), the logs are
\* analysed, the report is generated when it is due
CycleRunsOn ==
    /\ (pc = "collect" /\ pc' # pc) =>
          LET r == collect_snapshot(host', leak_process_pid, now) IN
          IF r.raised = None
          THEN /\ pc' = "analyze"
               /\ snapshot' = r.value
               /\ monitoring_data' = Append(monitoring_data, snapshot')
               /\ warnings' = check_critical_conditions(snapshot')
          ELSE pc' = "finally"
    /\ (pc = "analyze" /\ pc' # pc) =>
          /\ pc' = "report"
          /\ logs' = read_kernel_logs(host, DefaultLines)
          /\ kernel_events' = Append(kernel_events, analysis')
          /\ analysis'.total_log_lines = Len(logs')
    /\ (pc = "report" /\ pc' # pc) =>
          /\ pc' = "wait"
          /\ Len(reports') =
                IF iteration % 5 = 0 THEN Len(reports) + 1 ELSE Len(reports)

\* the flag is read at the head of the loop and in the wait: with the flag
\* cleared the wait ends without sleeping and the loop is left, and once
\* the flag is cleared no cycle starts any more
FlagReadBetweenCycles ==
    /\ (pc = "wait" /\ pc' # pc) =>
          /\ pc' = "loop"
          /\ ~running => now' = now
    /\ (pc = "loop" /\ pc' # pc) =>
          pc' = IF running THEN "collect" ELSE "finally"
    /\ (~running /\ pc # "start") => (~running' /\ iteration' = iteration)

\* C22: a stop signal that arrives while a cycle is in progress does not
\* cancel it: the handler only clears the running flag; the snapshot, the
\* threshold check, the log analysis and the periodic report, when due,
\* of the cycle are carried out as without the signal; the flag is read
\* only at the head of the loop and in the wait between the cycles, and
\* after it was cleared no further cycle starts.
C22_SignalDoesNotCancel ==
    [][OnlyFlagCleared /\ CycleRunsOn /\ FlagReadBetweenCycles]_vars

\* a stop signal arrived in the fifth cycle before its report, and the
\* cycle has gone on to the report statement
C22_Witness ==
    /\ pc = "report"
    /\ ~running
    /\ iteration = 5
    /\ Len(monitoring_data) = 5
    /\ Len(kernel_events) = 5
    /\ reports = <<>>

\* the cycles that have appended both their records
CyclesCompleted ==
    IF pc \in {"collect", "analyze"} THEN iteration - 1
    ELSE IF pc \in {"finally", "done"} THEN Len(kernel_events)
    ELSE iteration

\* C25: at every point of a run of the driver the snapshot history is not
\* shorter than the analysis history and is longer by at most one record;
\* after each cycle that ran to its end both histories have as many
\* records as cycles were completed, and every report has
\* monitoring_periods equal to kernel_analyses.
C25_HistoriesInStep ==
    /\ Len(kernel_events) <= Len(monitoring_data)
    /\ Len(monitoring_data) <= Len(kernel_events) + 1
    /\ Len(kernel_events) = CyclesCompleted
    /\ pc # "analyze" => Len(monitoring_data) = CyclesCompleted
    /\ pc \in {"finally", "done"} =>
          CyclesCompleted \in {iteration - 1, iteration}
    /\ \A k \in 1..Len(reports) :
          /\ reports[k].report_metadata.monitoring_periods
                = reports[k].report_metadata.kernel_analyses
          /\ reports[k].report_metadata.monitoring_periods <= CyclesCompleted

\* the sixth cycle has saved its snapshot and not yet its analysis, and a
\* report was generated after the fifth
C25_Witness ==
    /\ pc = "analyze"
    /\ iteration = 6
    /\ Len(monitoring_data) = 6
    /\ Len(kernel_events) = 5
    /\ Len(reports) = 1

\* NORMAL < WARNING < CRITICAL
Severity(status) ==
    CASE status = "NORMAL" -> 0
      [] status = "WARNING" -> 1
      [] status = "CRITICAL" -> 2

StatusOfReport(k) == reports[k].executive_summary.status

\* C23: within one monitoring session the status of the successive
\* reports never decreases in severity, NORMAL < WARNING < CRITICAL: every
\* later report has a status at least as severe as every earlier one.
C23_StatusNeverDecreases ==
    \A i \in 1..Len(reports) : \A j \in i..Len(reports) :
        Severity(StatusOfReport(i)) <= Severity(StatusOfReport(j))

\* a session whose reports were NORMAL, then CRITICAL, and CRITICAL again
\* after the host had become calm again
C23_Witness ==
    /\ Len(reports) = 3
    /\ Len(monitoring_data) = 11
    /\ Len(kernel_events) = 11
    /\ StatusOfReport(1) = "NORMAL"
    /\ StatusOfReport(2) = "CRITICAL"
    /\ StatusOfReport(3) = "CRITICAL"
    /\ monitoring_data[6].memory.percent > 90
    /\ monitoring_data[11].memory.percent <= 75
    /\ kernel_events[11].oom_events_count = 0
    /\ TotalOom(kernel_events) = 0

\* C20: an invalid configuration fails fast: with a negative monitoring
\* interval the driver reports an error before it collects any snapshot
\* or scans any log line, so no cycle is ever begun.
C20_InvalidConfigFailsFast ==
    interval_seconds < 0 =>
        /\ iteration = 0
        /\ monitoring_data = <<>>
        /\ kernel_events = <<>>
        /\ logs = <<>>

====
